---- MODULE Spec2Model ----
(***************************************************************************)
(* Mining-pool dashboard backend: the alert engine (AlertService), the     *)
(* periodic collector (MiningPoolService) and the external data fetcher    *)
(* with its TTL cache (ExternalAPIService), over the tables they read and  *)
(* write.                                                                  *)
(*                                                                         *)
(* Engine time is counted in minutes of UTC wall-clock time; every event   *)
(* happens on a whole minute.  Cache time is counted in units of 30 s.     *)
(* An async method is one action per suspension point (each await of a     *)
(* persistence call or of an HTTP request); the synchronous code between   *)
(* two awaits is part of the action that resumes it.                       *)
(***************************************************************************)
EXTENDS Integers, Sequences, FiniteSets, TLC

\* ------------------------------------------------------------------ bounds
MaxTime == 1         \* the engine clock runs from 0 to MaxTime minutes
MaxPasses == 2       \* passes one engine launches in a run
MaxStats == 8        \* rows pool_statistics can hold: an INSERT beyond them fails
MaxSimTime == 84     \* the simulation's clock runs from 0 to MaxSimTime (units of 5 s)

\* ------------------------------------------------------- program constants
CooldownMinutes == 60    \* datetime('now', '-1 hour')
OfflineMinutes == 10     \* minutesSinceUpdate > 10
NewBlockMinutes == 2     \* datetime('now', '-2 minutes')

NULL == "null"            \* a null id
NONE == <<>>              \* a null number; the number n is <<n>>
Num(n) == <<n>>

\* ------------------------------------------------------------------- state
VARIABLES
    clock,          \* wall-clock time, minutes UTC
    tz,             \* offset of the server's local time from UTC, minutes
    pools,          \* table pools, in rowid order: [id, status]
    poolStats,      \* table pool_statistics, in rowid order
    subs,           \* table alert_subscriptions, in rowid order
    history,        \* table alert_history, in rowid order
    dispatched,     \* sendEmailNotification calls made, per subscription
    dbFailed,       \* some persistence call or dispatch of a pass has failed so far
    alertRunning,   \* AlertService.isRunning
    alertHandle,    \* AlertService.processingInterval is set
    alertTimers,    \* live setInterval timers of the alert engine
    alertPasses,    \* processAlerts() invocations, in launch order
    collRunning,    \* MiningPoolService.isRunning
    collHandle,     \* MiningPoolService.updateInterval is set
    collTimers,     \* live setInterval timers of the collector
    collPasses,     \* fetchAllPoolData() invocations, in launch order
    dateNow,        \* Date.now() as the fetcher reads it, in units of 30 s
    cache,          \* ExternalAPIService.cache: key -> [data, timestamp, ttl]
    calls,          \* the fetcher's methods: where each invocation stands
    callCount,      \* calls made into the fetcher from outside so far
    aggregateCount, \* those of them that were calls of an aggregate method
    deployment,     \* which server runs: "server.ts" or "simple-start.js"
    response,       \* the HTTP response sent last
    jsCache,        \* ExternalAPIService.js cache: key -> data, live entries only
    jsParts,        \* what each call inside the last getDashboardStats came to
    requested,      \* bodies of the POST /api/alerts/subscribe answered 201, in order
    deleted,        \* ids of the DELETE /api/alerts/:id answered 200
    clients,        \* WebSocketService.clients
    readyState,     \* ws.readyState of each socket
    received,       \* the messages each socket's peer has been sent, in order
    handled,        \* sockets whose 'close' or 'error' handler has run
    broadcasts,     \* broadcast() calls made so far
    inbound,        \* 'message' events handled so far
    lastEvent,      \* the last broadcast or 'message' event: what it was, which
                    \* sends threw
    controllers,    \* the routers whose controller variable is set
    nodeEnv,        \* process.env.NODE_ENV
    seedEnv,        \* process.env.DEV_SEED_DATA === 'true'
    sameProcess,    \* the setupServices runs belong to one server process
    runs,           \* the setupServices() runs: where each stands, its connection's
                    \* uncommitted rows and locks
    databaseService, \* Server.databaseService: the run whose DatabaseService it holds
    serviceDb,      \* the DatabaseService Server.miningPoolService and .alertService
                    \* are bound to (0: the fields are undefined)
    engineDb,       \* the DatabaseService of the engines start() has started (0: none)
    blockRows,      \* table blocks, in rowid order
    simNow,         \* Date.now() of simple-start.js, in units of 5 s since its start
    lastBlockTime,  \* simple-start.js: lastBlockTime
    blockCounter,   \* simple-start.js: blockCounter
    dynamicBlocks,  \* simple-start.js: dynamicBlocks
    poolVariations  \* simple-start.js: poolVariations, each pool's trend

dbVars == <<pools, poolStats, subs, history, dispatched, dbFailed>>
alertVars == <<alertRunning, alertHandle, alertTimers, alertPasses>>
collVars == <<collRunning, collHandle, collTimers, collPasses>>
engineVars == <<clock, tz, dbVars, alertVars, collVars>>
fetchVars == <<dateNow, cache, calls, callCount, aggregateCount>>
jsVars == <<jsCache, jsParts>>
apiVars == <<requested, deleted>>
wsVars == <<clients, readyState, received, handled, broadcasts, inbound, lastEvent>>
bootVars == <<controllers, nodeEnv, seedEnv, sameProcess, runs, databaseService, serviceDb,
              engineDb>>
simVars == <<simNow, lastBlockTime, blockCounter, dynamicBlocks, poolVariations>>
sideVars == <<blockRows, simVars>>
serverVars == <<deployment, response, jsVars, apiVars, wsVars, bootVars, sideVars>>
\* what the routes of simple-start.js, and what the controllers, leave alone
simpleRest == <<deployment, engineVars, fetchVars, apiVars, wsVars, bootVars, sideVars>>
controllerRest == <<deployment, clock, tz, dispatched, dbFailed, alertVars, collVars,
                    fetchVars, jsVars, wsVars, bootVars, sideVars>>
deleteRest == <<deployment, clock, tz, dispatched, dbFailed, alertRunning, alertHandle,
                alertTimers, collVars, fetchVars, jsVars, wsVars, bootVars, simVars>>
wsRest == <<deployment, response, engineVars, fetchVars, jsVars, apiVars, bootVars, sideVars>>
bootRest == <<deployment, response, clock, tz, subs, history, dispatched, dbFailed, alertVars,
              collVars, fetchVars, jsVars, apiVars, wsVars, nodeEnv, seedEnv, sameProcess,
              databaseService, engineDb, sideVars>>
vars == <<engineVars, fetchVars, serverVars>>

\* ------------------------------------------------------------ seeded rows
Pool(id, status) == [id |-> id, status |-> status]
Stat(pool, ts, hashrate) ==
    [pool_id |-> pool, timestamp |-> ts, hashrate |-> hashrate, luck_7d |-> 100]
LuckStat(pool, ts, luck) == [Stat(pool, ts, 1000) EXCEPT !.luck_7d = luck]
Block(pool, number, ts) == [pool_id |-> pool, block_number |-> number, timestamp |-> ts]
Sub(id, pool, type, threshold, active) ==
    [id |-> id, pool_id |-> pool, alert_type |-> type, threshold |-> threshold,
     is_active |-> active]

SeedPools == <<Pool("p1", "active"), Pool("p2", "active"), Pool("p3", "inactive")>>
NullId == NULL           \* the NULL of a pool_id column
TimeZones == {-60, 0, 60}
MockHashrates == {800, 1000}

\* ------------------------------------------------------------- query parts
Range(s) == {s[i] : i \in 1..Len(s)}

foreignKeysOff(rows, id) == TRUE
\* PRAGMA foreign_keys = ON; <column> REFERENCES <rows>(id): the value is NULL
\* or the id of a row
references(rows, id) == id = NullId \/ \E i \in 1..Len(rows) : rows[i].id = id

\* The place of row r of a table once the rows in gone have been deleted (0 if
\* r itself is deleted): a row keeps its id.
RowAfterDelete(r, gone) ==
    IF r = 0 \/ r \in gone THEN 0 ELSE r - Cardinality({g \in gone : g < r})

IsActiveSub(s) == s.is_active = 1
\* SELECT s.* FROM alert_subscriptions s ... WHERE s.is_active = 1
ActiveAlerts == SelectSeq(subs, IsActiveSub)

notInactive(p) == p.status # "inactive"
IsActivePool(p) == p.status = "active"
\* SELECT * FROM pools WHERE status = 'active'
ActivePools == SelectSeq(pools, IsActivePool)

StatsOf(pool) == {i \in 1..Len(poolStats) : poolStats[i].pool_id = pool}

\* ORDER BY timestamp DESC LIMIT 1: the admissible first rows (ties are unordered)
TopOne(pool) ==
    {i \in StatsOf(pool) :
        \A k \in StatsOf(pool) : poolStats[k].timestamp <= poolStats[i].timestamp}

\* ORDER BY timestamp DESC LIMIT 2: the admissible <<first, second>> rows
TopTwo(pool) ==
    {<<i, j>> \in StatsOf(pool) \X StatsOf(pool) :
        /\ i # j
        /\ poolStats[i].timestamp >= poolStats[j].timestamp
        /\ \A k \in StatsOf(pool) \ {i, j} :
               poolStats[k].timestamp <= poolStats[j].timestamp}

\* new Date(<'YYYY-MM-DD HH:MM:SS' as SQLite stores CURRENT_TIMESTAMP, in UTC>):
\* a date-time string without a zone is read as local time.
parseDate(ts) == ts - tz

\* (now.getTime() - updateTime.getTime()) / (1000 * 60)
minutesSinceUpdate(now, ts) == now - parseDate(ts)

\* if (minutesSinceUpdate > 10)
isOffline(minutes) == minutes > OfflineMinutes

\* The pairs <<previous, current>> of the modelled hashrates for which the IEEE-754
\* double ((previous - current) / previous) * 100 lies above the exact quotient
\* (1000, 930 gives 7.000000000000001).
FloatAbove == {<<850, 900>>, <<900, 1000>>, <<930, 850>>, <<1000, 930>>}

\* dropPercentage > alert.threshold, with
\* dropPercentage = ((previous - current) / previous) * 100 in doubles;
\* previous = 0 gives NaN or -Infinity, which exceed nothing.
dropExceeds(previous, current, threshold) ==
    /\ previous # 0
    /\ \/ (previous - current) * 100 > threshold[1] * previous
       \/ /\ (previous - current) * 100 = threshold[1] * previous
          /\ <<previous, current>> \in FloatAbove

nullThreshold(t) == t = NONE
\* !alert.threshold: null and 0 are both "no threshold"
noThreshold(t) == t = NONE \/ t = Num(0)

noCooldown(subId, now) == FALSE
sentRecently(subId, now) ==
    \E i \in 1..Len(history) :
        /\ history[i].subscription_id = subId
        /\ history[i].triggered_at > now - CooldownMinutes
        /\ history[i].email_sent = 1
\* SELECT id FROM alert_history WHERE subscription_id = ?
\*   AND triggered_at > datetime('now', '-1 hour')
recentAlert(subId, now) ==
    \E r \in Range(history) :
        r.subscription_id = subId /\ r.triggered_at > now - CooldownMinutes

\* ------------------------------------------------------------ alert engine
\* One processAlerts() invocation.  alerts, k (the loop's position in alerts),
\* trigs (the triggerAlert calls the current check still makes) and row (alertId)
\* are its locals; solo records that no earlier pass was in flight when it
\* began, held the subscriptions it called triggerAlert for.
NewAlertPass ==
    [pc |-> "load", alerts |-> <<>>, k |-> 0, trigs |-> <<>>, row |-> 0,
     solo |-> \A j \in 1..Len(alertPasses) : alertPasses[j].pc = "done",
     held |-> {}]

startAlwaysProceeds(running) == FALSE
\* if (this.isRunning) { ...; return; }
startReturnsEarly(running) == running

stopLeavesTimer(handle) == FALSE
\* if (this.processingInterval) { clearInterval(this.processingInterval); ... }
stopClearsTimer(handle) == handle

startAlertProcessing ==
    /\ IF startReturnsEarly(alertRunning)
       THEN UNCHANGED alertVars
       ELSE /\ Len(alertPasses) < MaxPasses
            /\ alertRunning' = TRUE
            /\ alertPasses' = Append(alertPasses, NewAlertPass)
            /\ alertHandle' = TRUE
            /\ alertTimers' = alertTimers + 1
    /\ UNCHANGED <<clock, tz, fetchVars, serverVars, dbVars, collVars>>

stopAlertProcessing ==
    /\ IF stopClearsTimer(alertHandle)
       THEN alertTimers' = alertTimers - 1 /\ alertHandle' = FALSE
       ELSE UNCHANGED <<alertTimers, alertHandle>>
    /\ alertRunning' = FALSE
    /\ UNCHANGED <<alertPasses, clock, tz, fetchVars, serverVars, dbVars, collVars>>

intervalSpent(timers) == FALSE
\* setInterval: the callback is called at every interval for as long as the
\* timer has not been cleared
intervalRepeats(timers) == timers > 0

\* the setInterval callback: () => { this.processAlerts(); }
alertIntervalFires ==
    /\ intervalRepeats(alertTimers)
    /\ Len(alertPasses) < MaxPasses
    /\ alertPasses' = Append(alertPasses, NewAlertPass)
    /\ UNCHANGED <<alertRunning, alertHandle, alertTimers, clock, tz, fetchVars, serverVars, dbVars, collVars>>

\* The pass after it is done with alerts[k]: on to the next one, or finished.
NextAlert(p) ==
    IF p.k < Len(p.alerts)
    THEN [p EXCEPT !.pc = "check", !.k = p.k + 1, !.trigs = <<>>]
    ELSE [p EXCEPT !.pc = "done", !.trigs = <<>>]

\* The pass after one triggerAlert call returned: checkNewBlock's loop goes on to
\* its next block, every other check returns to processAlerts.
NextTrigger(p) ==
    IF Len(p.trigs) > 1
    THEN [p EXCEPT !.pc = "trig_check", !.trigs = Tail(p.trigs)]
    ELSE NextAlert(p)

\* The pass after processAlerts' own catch: the pass is over.
Abort(p) == [p EXCEPT !.pc = "done", !.trigs = <<>>]

checkRethrows(p) == Abort(p)
\* checkAlertCondition: catch (error) { console.error(...) } -- the loop goes on
checkCatches(p) == NextAlert(p)

\* const activeAlerts = await this.dbService.query(...)
AlertLoad(i) ==
    /\ i \in 1..Len(alertPasses)
    /\ alertPasses[i].pc = "load"
    /\ \E ok \in BOOLEAN :
         /\ alertPasses' = [alertPasses EXCEPT ![i] =
                IF ok
                THEN NextAlert([@ EXCEPT !.alerts = ActiveAlerts])
                ELSE Abort(@)]
         /\ dbFailed' = (dbFailed \/ ~ok)
    /\ UNCHANGED <<alertRunning, alertHandle, alertTimers, clock, tz, fetchVars, serverVars, pools, poolStats,
                   subs, history, dispatched, collVars>>

\* checkHashrateDrop: the values triggerAlert is called with
HashrateDropTrigs(alert, rows) ==
    LET current == poolStats[rows[1]].hashrate
        previous == poolStats[rows[2]].hashrate
    IN  IF dropExceeds(previous, current, alert.threshold) THEN <<current>> ELSE <<>>

\* checkPoolOffline: the values triggerAlert is called with
PoolOfflineTrigs(alert, rowi) ==
    LET m == minutesSinceUpdate(clock, poolStats[rowi].timestamp)
    IN  IF isOffline(m) THEN <<m>> ELSE <<>>

\* checkLuckStreak: the values triggerAlert is called with
LuckStreakTrigs(alert, rowi) ==
    LET luck == poolStats[rowi].luck_7d
    IN  IF luck < alert.threshold[1] THEN <<luck>> ELSE <<>>

blocksOfAnyPool(alert) ==
    LET isRecent(b) == b.timestamp > clock - NewBlockMinutes
    IN  SelectSeq(blockRows, isRecent)
\* checkNewBlock: SELECT * FROM blocks WHERE timestamp > datetime('now',
\* '-2 minutes') [AND pool_id = ?], in rowid order, and the values triggerAlert
\* is called with, one call for each row
RecentBlocks(alert) ==
    LET isRecent(b) ==
            /\ b.timestamp > clock - NewBlockMinutes
            /\ alert.pool_id # NULL => b.pool_id = alert.pool_id
    IN  SelectSeq(blockRows, isRecent)
NewBlockTrigs(alert) ==
    LET rows == RecentBlocks(alert) IN [r \in 1..Len(rows) |-> rows[r].block_number]

\* The check of an alert returns before its first query.
ReturnsAtOnce(alert) ==
    CASE alert.alert_type = "hashrate_drop" ->
             alert.pool_id = NULL \/ noThreshold(alert.threshold)
      [] alert.alert_type = "pool_offline" -> alert.pool_id = NULL
      [] alert.alert_type = "luck_streak" ->
             alert.pool_id = NULL \/ noThreshold(alert.threshold)
      [] alert.alert_type = "new_block" -> FALSE
      [] OTHER -> TRUE

\* The results the check's query and the evaluation of its rows can have.
CheckTrigs(alert) ==
    CASE alert.alert_type = "hashrate_drop" ->
             IF Cardinality(StatsOf(alert.pool_id)) < 2 THEN {<<>>}
             ELSE {HashrateDropTrigs(alert, rows) : rows \in TopTwo(alert.pool_id)}
      [] alert.alert_type = "pool_offline" ->
             IF StatsOf(alert.pool_id) = {} THEN {<<>>}
             ELSE {PoolOfflineTrigs(alert, r) : r \in TopOne(alert.pool_id)}
      [] alert.alert_type = "luck_streak" ->
             IF StatsOf(alert.pool_id) = {} THEN {<<>>}
             ELSE {LuckStreakTrigs(alert, r) : r \in TopOne(alert.pool_id)}
      [] alert.alert_type = "new_block" -> {NewBlockTrigs(alert)}
      [] OTHER -> {<<>>}

\* await this.checkAlertCondition(alert), up to the call of triggerAlert
AlertCheck(i) ==
    /\ i \in 1..Len(alertPasses)
    /\ alertPasses[i].pc = "check"
    /\ LET p == alertPasses[i]
           alert == p.alerts[p.k]
       IN  IF ReturnsAtOnce(alert)
           THEN /\ alertPasses' = [alertPasses EXCEPT ![i] = NextAlert(p)]
                /\ UNCHANGED dbFailed
           ELSE \E ok \in BOOLEAN :
                  /\ dbFailed' = (dbFailed \/ ~ok)
                  /\ IF ~ok
                     THEN alertPasses' = [alertPasses EXCEPT ![i] = checkCatches(p)]
                     ELSE \E t \in CheckTrigs(alert) :
                            alertPasses' = [alertPasses EXCEPT ![i] =
                                IF t = <<>>
                                THEN NextAlert(p)
                                ELSE [p EXCEPT !.pc = "trig_check", !.trigs = t,
                                               !.held = @ \cup {alert.id}]]
    /\ UNCHANGED <<alertRunning, alertHandle, alertTimers, clock, tz, fetchVars, serverVars, pools, poolStats,
                   subs, history, dispatched, collVars>>

\* triggerAlert: const recentAlert = await this.dbService.queryOne(...)
AlertTrigCheck(i) ==
    /\ i \in 1..Len(alertPasses)
    /\ alertPasses[i].pc = "trig_check"
    /\ LET p == alertPasses[i]
           alert == p.alerts[p.k]
       IN  \E ok \in BOOLEAN :
             /\ alertPasses' = [alertPasses EXCEPT ![i] =
                    IF ~ok THEN NextTrigger(p)
                    ELSE IF recentAlert(alert.id, clock) THEN NextTrigger(p)
                    ELSE [p EXCEPT !.pc = "trig_insert"]]
             /\ dbFailed' = (dbFailed \/ ~ok)
    /\ UNCHANGED <<alertRunning, alertHandle, alertTimers, clock, tz, fetchVars, serverVars, pools, poolStats,
                   subs, history, dispatched, collVars>>

\* triggerAlert: INSERT INTO alert_history ...
AlertTrigInsert(i) ==
    /\ i \in 1..Len(alertPasses)
    /\ alertPasses[i].pc = "trig_insert"
    /\ LET p == alertPasses[i]
           alert == p.alerts[p.k]
           accepted == references(subs, alert.id) /\ references(pools, alert.pool_id)
       IN  \E ok \in BOOLEAN :
             /\ IF ok /\ accepted
                THEN /\ history' = Append(history,
                           [subscription_id |-> alert.id, triggered_at |-> clock,
                            email_sent |-> 0, pool_id |-> alert.pool_id,
                            trigger_value |-> Head(p.trigs),
                            running |-> alertRunning])
                     /\ alertPasses' = [alertPasses EXCEPT ![i] =
                            [p EXCEPT !.pc = "dispatch", !.row = Len(history) + 1]]
                ELSE /\ alertPasses' = [alertPasses EXCEPT ![i] = NextTrigger(p)]
                     /\ UNCHANGED history
             /\ dbFailed' = (dbFailed \/ ~ok)
    /\ UNCHANGED <<alertRunning, alertHandle, alertTimers, clock, tz, fetchVars, serverVars, pools, poolStats,
                   subs, dispatched, collVars>>

\* triggerAlert: await this.sendEmailNotification(alert.email, message).  Its
\* promise resolves, or is rejected (the console.log it consists of throws when
\* the stream it writes to fails) and triggerAlert's catch ends the call.
AlertDispatch(i) ==
    /\ i \in 1..Len(alertPasses)
    /\ alertPasses[i].pc = "dispatch"
    /\ LET p == alertPasses[i]
           alert == p.alerts[p.k]
       IN  \E sent \in BOOLEAN :
             /\ dispatched' = [dispatched EXCEPT ![alert.id] = @ + 1]
             /\ alertPasses' = [alertPasses EXCEPT ![i] =
                    IF sent THEN [p EXCEPT !.pc = "trig_update"] ELSE NextTrigger(p)]
             /\ dbFailed' = (dbFailed \/ ~sent)
    /\ UNCHANGED <<alertRunning, alertHandle, alertTimers, clock, tz, fetchVars, serverVars, pools, poolStats,
                   subs, history, collVars>>

\* triggerAlert: UPDATE alert_history SET email_sent = 1 ... WHERE id = ?
AlertTrigUpdate(i) ==
    /\ i \in 1..Len(alertPasses)
    /\ alertPasses[i].pc = "trig_update"
    /\ LET p == alertPasses[i]
       IN  \E ok \in BOOLEAN :
             /\ history' = IF ok /\ p.row \in 1..Len(history)
                           THEN [history EXCEPT ![p.row].email_sent = 1]
                           ELSE history
             /\ alertPasses' = [alertPasses EXCEPT ![i] = NextTrigger(p)]
             /\ dbFailed' = (dbFailed \/ ~ok)
    /\ UNCHANGED <<alertRunning, alertHandle, alertTimers, clock, tz, fetchVars, serverVars, pools, poolStats,
                   subs, dispatched, collVars>>

\* ---------------------------------------------------------------- collector
NewCollPass ==
    [pc |-> "load", pools |-> <<>>, k |-> 0, inserted |-> {}, failed |-> {}]

startDataCollection ==
    /\ IF startReturnsEarly(collRunning)
       THEN UNCHANGED collVars
       ELSE /\ Len(collPasses) < MaxPasses
            /\ collRunning' = TRUE
            /\ collPasses' = Append(collPasses, NewCollPass)
            /\ collHandle' = TRUE
            /\ collTimers' = collTimers + 1
    /\ UNCHANGED <<clock, tz, fetchVars, serverVars, dbVars, alertVars>>

stopDataCollection ==
    /\ IF stopClearsTimer(collHandle)
       THEN collTimers' = collTimers - 1 /\ collHandle' = FALSE
       ELSE UNCHANGED <<collTimers, collHandle>>
    /\ collRunning' = FALSE
    /\ UNCHANGED <<collPasses, clock, tz, fetchVars, serverVars, dbVars, alertVars>>

\* the setInterval callback: () => { this.fetchAllPoolData(); }
collIntervalFires ==
    /\ intervalRepeats(collTimers)
    /\ Len(collPasses) < MaxPasses
    /\ collPasses' = Append(collPasses, NewCollPass)
    /\ UNCHANGED <<collRunning, collHandle, collTimers, clock, tz, fetchVars, serverVars, dbVars, alertVars>>

NextPool(p) ==
    IF p.k < Len(p.pools)
    THEN [p EXCEPT !.pc = "insert", !.k = p.k + 1]
    ELSE [p EXCEPT !.pc = "done"]

fetchRethrows(p) == [p EXCEPT !.pc = "done", !.failed = @ \cup {p.pools[p.k].id}]
\* fetchPoolData: catch (error) { console.error(...) } -- the loop goes on
fetchCatches(p) == NextPool([p EXCEPT !.failed = @ \cup {p.pools[p.k].id}])

\* const pools = await this.dbService.query('SELECT * FROM pools WHERE status = ?')
CollLoad(i) ==
    /\ i \in 1..Len(collPasses)
    /\ collPasses[i].pc = "load"
    /\ \E ok \in BOOLEAN :
         /\ collPasses' = [collPasses EXCEPT ![i] =
                IF ok THEN NextPool([@ EXCEPT !.pools = ActivePools])
                ELSE [@ EXCEPT !.pc = "done"]]
         /\ dbFailed' = (dbFailed \/ ~ok)
    /\ UNCHANGED <<collRunning, collHandle, collTimers, clock, tz, fetchVars, serverVars, pools, poolStats,
                   subs, history, dispatched, alertVars>>

\* fetchPoolData: INSERT INTO pool_statistics (...) VALUES (?, ?, CURRENT_TIMESTAMP, ...)
CollInsert(i) ==
    /\ i \in 1..Len(collPasses)
    /\ collPasses[i].pc = "insert"
    /\ LET p == collPasses[i]
           pool == p.pools[p.k]
       IN  \E ok \in IF Len(poolStats) < MaxStats THEN BOOLEAN ELSE {FALSE} :
             /\ IF ok /\ references(pools, pool.id)
                THEN \E h \in MockHashrates :
                       /\ poolStats' = Append(poolStats, Stat(pool.id, clock, h))
                       /\ collPasses' = [collPasses EXCEPT ![i] =
                              NextPool([p EXCEPT !.inserted = @ \cup {pool.id}])]
                ELSE /\ collPasses' = [collPasses EXCEPT ![i] = fetchCatches(p)]
                     /\ UNCHANGED poolStats
             /\ dbFailed' = (dbFailed \/ ~ok)
    /\ UNCHANGED <<collRunning, collHandle, collTimers, clock, tz, fetchVars, serverVars, pools, subs, history,
                   dispatched, alertVars>>

\* The promises of the passes that have returned are collected: a finished
\* processAlerts() or fetchAllPoolData() holds nothing any more.
IsInFlight(p) == p.pc # "done"
Collect ==
    /\ \/ \E i \in 1..Len(alertPasses) : ~IsInFlight(alertPasses[i])
       \/ \E i \in 1..Len(collPasses) : ~IsInFlight(collPasses[i])
    /\ alertPasses' = SelectSeq(alertPasses, IsInFlight)
    /\ collPasses' = SelectSeq(collPasses, IsInFlight)
    /\ UNCHANGED <<alertRunning, alertHandle, alertTimers, collRunning, collHandle, collTimers,
                   clock, tz, fetchVars, serverVars, dbVars>>

\* --------------------------------------------------------------------- time
Tick ==
    /\ clock < MaxTime
    /\ clock' = clock + 1
    /\ UNCHANGED <<tz, fetchVars, serverVars, dbVars, alertVars, collVars>>

\* ------------------------------------------------------------------ fetcher
\* ExternalAPIService.ts.  JavaScript values are tagged records: null and
\* undefined are Null, a number n is Number(n), NaN is NaN, objects and arrays
\* carry their fields.  Hashrates are in units of 10^12 H/s, the difficulty in
\* units of 10^14.
MaxNow == 2          \* the fetcher's clock runs from 0 to MaxNow (units of 30 s)
MaxCalls == 2        \* calls made into the fetcher from outside in a run
MaxAggregates == 1   \* those of them that may be calls of an aggregate method

CACHE_TTL == 1       \* parseInt(process.env.CACHE_TTL || '30000') ms

Null == [t |-> "null"]
Number(n) == [t |-> "number", n |-> n]
NaN == [t |-> "NaN"]
PoolData(id, hashrate) == [t |-> "pool", id |-> id, hashrate |-> hashrate]
NetworkStats(gasPrice) == [t |-> "network", difficulty |-> 155, gasPrice |-> gasPrice]
Blocks(numbers) == [t |-> "blocks", block_numbers |-> numbers]
AllPools(ps) == [t |-> "pools", list |-> ps]
DashboardStats(total, active, blocks, difficulty, price, gas) ==
    [t |-> "stats", total_hashrate |-> total, active_pools |-> active,
     blocks_found_24h |-> blocks, network_difficulty |-> difficulty,
     eth_price |-> price, gas_price |-> gas]

\* if (v) / v || w
Truthy(v) == v # Null /\ v # NaN /\ v # Number(0)
JsOr(v, w) == IF Truthy(v) THEN v ELSE w

LeafMethods == {"getEthPrice", "getNetworkStats", "getEthermineData",
                "getFlexpoolData", "get2MinersData", "getRecentBlocks"}
AggregateMethods == {"getAllPoolsData", "getDashboardStats"}
Methods == LeafMethods \cup AggregateMethods \cup {"getF2PoolData"}

cacheKey(m) ==
    CASE m = "getEthPrice" -> "eth_price"
      [] m = "getNetworkStats" -> "network_stats"
      [] m = "getEthermineData" -> "ethermine_data"
      [] m = "getF2PoolData" -> "f2pool_data"
      [] m = "getFlexpoolData" -> "flexpool_data"
      [] m = "get2MinersData" -> "2miners_data"
      [] m = "getRecentBlocks" -> "recent_blocks"
      [] m = "getAllPoolsData" -> "all_pools_data"
      [] m = "getDashboardStats" -> "dashboard_stats"

\* The calls an aggregate makes inside its Promise.all, in order.
Children(m) ==
    CASE m = "getAllPoolsData" ->
           <<"getEthermineData", "getF2PoolData", "getFlexpoolData", "get2MinersData">>
      [] m = "getDashboardStats" ->
           <<"getAllPoolsData", "getEthPrice", "getNetworkStats", "getRecentBlocks">>
      [] OTHER -> <<>>

poolId(m) ==
    CASE m = "getEthermineData" -> "ethermine-001"
      [] m = "getF2PoolData" -> "f2pool-002"
      [] m = "getFlexpoolData" -> "flexpool-003"
      [] m = "get2MinersData" -> "2miners-004"

\* What an upstream answers: a well-formed body, a body that lacks the field
\* read last (the read yields undefined), a body that lacks the object that
\* field is read from (the read throws a TypeError), no answer at all, or none
\* within the timeout.
Rejections == {"network_error", "timeout"}
Outcomes == {"ok", "no_field", "no_object"} \cup Rejections
Throwing == {"no_object"} \cup Rejections

\* The figure a well-formed body carries, per source.
UpstreamFigures(m) ==
    CASE m = "getEthPrice" -> {3000}
      [] m = "getNetworkStats" -> {30}
      [] m = "getEthermineData" -> {700}
      [] m = "getFlexpoolData" -> {170}
      [] m = "get2MinersData" -> {90}
      [] m = "getRecentBlocks" -> {18}

getCachedData(c, key) ==
    IF key \in DOMAIN c /\ dateNow - c[key].timestamp < c[key].ttl
    THEN c[key].data
    ELSE Null

setCachedData(c, key, data, ttl) ==
    [k \in DOMAIN c \cup {key} |->
        IF k = key THEN [data |-> data, timestamp |-> dateNow, ttl |-> ttl] ELSE c[k]]

\* The read a catch block makes for its fallback.
fallbackRead(c, key) == getCachedData(c, key)

getFallbackPoolData(id) ==
    PoolData(id, CASE id = "ethermine-001" -> 750
                   [] id = "f2pool-002" -> 320
                   [] id = "flexpool-003" -> 180
                   [] id = "2miners-004" -> 95)

getFallbackAllPools ==
    AllPools(<<PoolData("ethermine-001", 750), PoolData("f2pool-002", 320),
               PoolData("flexpool-003", 180), PoolData("2miners-004", 95)>>)

getFallbackDashboardStats ==
    DashboardStats(750 + 320 + 180 + 95, 4, 3, 155, Number(2500), 20)

\* The constant each catch block falls back to.
fallbackConstant(m) ==
    CASE m = "getEthPrice" -> Number(2500)
      [] m = "getNetworkStats" -> NetworkStats(20)
      [] m = "getRecentBlocks" -> Blocks(<<>>)
      [] m = "getAllPoolsData" -> getFallbackAllPools
      [] m = "getDashboardStats" -> getFallbackDashboardStats
      [] OTHER -> getFallbackPoolData(poolId(m))

\* What a catch block hands to the caller.
fallbackValue(m, c) ==
    IF m \in {"getEthermineData", "getF2PoolData", "getFlexpoolData", "get2MinersData"}
    THEN fallbackConstant(m)
    ELSE JsOr(fallbackRead(c, cacheKey(m)), fallbackConstant(m))

Idle == [pc |-> "idle", result |-> Null, via |-> "none"]
Awaiting == [pc |-> "await", result |-> Null, via |-> "none"]
Returned(v, via) == [pc |-> "returned", result |-> v, via |-> via]

catchRethrows(m, c, via) == [pc |-> "raised", result |-> Null, via |-> via]

\* catch (error) { console.error(...); return <fallback>; }
catchReturns(m, c, via) == Returned(fallbackValue(m, c), via)

\* The value the try block of a leaf method builds from a body that does not
\* make it throw.
parsedBody(m, outcome, figure) ==
    CASE m = "getEthPrice" ->
           IF outcome = "ok" THEN Number(figure) ELSE Null
      [] m = "getNetworkStats" ->
           NetworkStats(IF outcome = "ok" THEN figure ELSE 20)
      [] m = "getRecentBlocks" ->
           Blocks(<<IF outcome = "ok" THEN Number(figure) ELSE NaN>>)
      [] m = "getEthermineData" ->
           PoolData(poolId(m), IF outcome = "ok" THEN figure ELSE 750)
      [] m = "getFlexpoolData" ->
           PoolData(poolId(m), IF outcome = "ok" THEN figure ELSE 180)
      [] m = "get2MinersData" ->
           PoolData(poolId(m), IF outcome = "ok" THEN figure ELSE 95)

\* The method up to its first await, on the service state st = [calls, cache]:
\* the cache check, then for getF2PoolData the whole body (it awaits nothing),
\* for a leaf the request, for an aggregate its children's starts.
RECURSIVE begin(_, _)
RECURSIVE beginAll(_, _)
begin(m, st) ==
    LET cached == getCachedData(st.cache, cacheKey(m)) IN
    IF Truthy(cached)
    THEN [st EXCEPT !.calls[m] = Returned(cached, "hit")]
    ELSE IF m = "getF2PoolData"
    THEN [calls |-> [st.calls EXCEPT ![m] = Returned(PoolData(poolId(m), 320), "ok")],
          cache |-> setCachedData(st.cache, cacheKey(m), PoolData(poolId(m), 320),
                                  CACHE_TTL)]
    ELSE IF m \in LeafMethods
    THEN [st EXCEPT !.calls[m] = Awaiting]
    ELSE beginAll(Children(m), [st EXCEPT !.calls[m] = Awaiting])
beginAll(ms, st) ==
    IF ms = <<>> THEN st ELSE beginAll(Tail(ms), begin(Head(ms), st))

NoCallInFlight == \A m \in Methods : calls[m].pc # "await"

\* A controller calls one of the fetcher's methods; the previous call is over.
Invoke(m) ==
    /\ callCount < MaxCalls
    /\ m \in AggregateMethods => aggregateCount < MaxAggregates
    /\ NoCallInFlight
    /\ LET st == begin(m, [calls |-> [x \in Methods |-> Idle], cache |-> cache]) IN
         /\ calls' = st.calls
         /\ cache' = st.cache
    /\ callCount' = callCount + 1
    /\ aggregateCount' = aggregateCount + (IF m \in AggregateMethods THEN 1 ELSE 0)
    /\ UNCHANGED <<dateNow, engineVars, serverVars>>

\* The upstream's answer reaches a leaf method: the rest of its try block, or
\* its catch block.
Respond(m) ==
    /\ calls[m].pc = "await"
    /\ \E outcome \in Outcomes, figure \in UpstreamFigures(m) :
         IF outcome \in Throwing
         THEN /\ calls' = [calls EXCEPT ![m] = catchReturns(m, cache, "caught")]
              /\ UNCHANGED cache
         ELSE LET data == parsedBody(m, outcome, figure) IN
              /\ cache' = setCachedData(cache, cacheKey(m), data, CACHE_TTL)
              /\ calls' = [calls EXCEPT ![m] = Returned(data, "ok")]
    /\ UNCHANGED <<dateNow, callCount, aggregateCount, engineVars, serverVars>>

Settled(m) == \A i \in 1..Len(Children(m)) : calls[Children(m)[i]].pc # "await"
Rejected(m) == \E i \in 1..Len(Children(m)) : calls[Children(m)[i]].pc = "raised"
resultOf(m) == calls[m].result

RECURSIVE sumHashrate(_)
sumHashrate(ps) == IF ps = <<>> THEN 0 ELSE Head(ps).hashrate + sumHashrate(Tail(ps))

\* The aggregate's value once its Promise.all has resolved.
aggregate(m) ==
    IF m = "getAllPoolsData"
    THEN AllPools(<<resultOf("getEthermineData"), resultOf("getF2PoolData"),
                    resultOf("getFlexpoolData"), resultOf("get2MinersData")>>)
    ELSE LET ps == resultOf("getAllPoolsData").list
             blocks == resultOf("getRecentBlocks").block_numbers
         IN DashboardStats(sumHashrate(ps), Len(ps), Len(blocks),
                           resultOf("getNetworkStats").difficulty,
                           resultOf("getEthPrice"),
                           resultOf("getNetworkStats").gasPrice)

\* The Promise.all of an aggregate is over: the rest of its try block, or its
\* catch block if one of the promises was rejected.
Join(m) ==
    /\ calls[m].pc = "await"
    /\ Settled(m)
    /\ IF Rejected(m)
       THEN /\ calls' = [calls EXCEPT ![m] = catchReturns(m, cache, "caught")]
            /\ UNCHANGED cache
       ELSE /\ cache' = setCachedData(cache, cacheKey(m), aggregate(m), CACHE_TTL)
            /\ calls' = [calls EXCEPT ![m] = Returned(aggregate(m), "ok")]
    /\ UNCHANGED <<dateNow, callCount, aggregateCount, engineVars, serverVars>>

\* Thirty seconds pass.  The requests of an aggregate call are taken to be
\* answered within the 30 s in which they were sent.
Elapse ==
    /\ dateNow < MaxNow
    /\ \A m \in AggregateMethods : calls[m].pc # "await"
    /\ dateNow' = dateNow + 1
    /\ UNCHANGED <<cache, calls, callCount, aggregateCount, engineVars, serverVars>>

\* ------------------------------------------------------------- HTTP routes
\* A request path is its sequence of segments.  A response is [request,
\* handler, status, error, source, data]; data is a sequence of rows.  The
\* numbers of a pool row are Num(n) or NONE (SQL NULL, or a field the row does
\* not have): hashrate in units of 10^13 H/s, fee_percentage in tenths of a
\* percent, luck_7d in percent.
Deployments == {"server.ts", "simple-start.js"}
NoResponse ==
    [request |-> <<>>, handler |-> "none", status |-> 0, error |-> "",
     source |-> "", data |-> <<>>]
Response(request, handler, status, error, source, data) ==
    [request |-> request, handler |-> handler, status |-> status,
     error |-> error, source |-> source, data |-> data]

\* errorHandler: the body carries the message, in development the stack, which
\* begins with it.
errorHandler(request, handler, statusCode, message) ==
    Response(request, handler, statusCode,
             IF nodeEnv = "development" THEN "Error: " \o message \o "\n    at ..."
             ELSE message,
             "", <<>>)

Route(pattern, handler) == [pattern |-> pattern, handler |-> handler]
Matches(pattern, path) ==
    /\ Len(pattern) = Len(path)
    /\ \A i \in 1..Len(path) : pattern[i] \in {":id", ":email"} \/ pattern[i] = path[i]

\* Express hands a request to the first route registered whose pattern
\* matches its path.
Dispatch(routes, path) ==
    IF \E i \in 1..Len(routes) : Matches(routes[i].pattern, path)
    THEN LET first == CHOOSE i \in 1..Len(routes) :
                 /\ Matches(routes[i].pattern, path)
                 /\ \A j \in 1..(i - 1) : ~Matches(routes[j].pattern, path)
         IN  routes[first].handler
    ELSE "notFoundHandler"

\* router.get(...) of the pool controller, under app.use('/api/pools', ...)
PoolRoutes ==
    <<Route(<<"api", "pools">>, "getAllPools"),
      Route(<<"api", "pools", "compare">>, "comparePools"),
      Route(<<"api", "pools", ":id">>, "getPoolById"),
      Route(<<"api", "pools", ":id", "history">>, "getPoolHistory"),
      Route(<<"api", "pools", ":id", "blocks">>, "getPoolBlocks")>>

\* app.get(...) of simple-start.js, in the order of registration
SimpleRoutes ==
    <<Route(<<"health">>, "health"),
      Route(<<"api", "pools">>, "pools"),
      Route(<<"api", "pools", ":id">>, "poolById"),
      Route(<<"api", "pools", "compare">>, "compare"),
      Route(<<"api", "stats", "dashboard">>, "dashboard"),
      Route(<<"api", "pools", ":id", "history">>, "history")>>

\* pool.f of a row that may lack the field
Field(pool, f) == IF f \in DOMAIN pool THEN pool[f] ELSE NONE

\* The number a null, an undefined or a number is compared or subtracted as:
\* null is 0; undefined is NaN, which is above nothing and differs from 100 by
\* more than anything, and so is 0 here as well.
ToNumber(v) == IF v = NONE THEN 0 ELSE v[1]
Abs(n) == IF n < 0 THEN -n ELSE n
Clamp(score) ==
    LET atLeast0 == IF score > 0 THEN score ELSE 0
    IN  IF atLeast0 < 100 THEN atLeast0 ELSE 100

scoreWithoutPayoutBonus(pool) ==
    LET hashrate == ToNumber(Field(pool, "hashrate"))
        fee == ToNumber(Field(pool, "fee_percentage"))
        luckDeviation == Abs(100 - ToNumber(Field(pool, "luck_7d")))
        recent == ToNumber(Field(pool, "recent_blocks"))
    IN  Clamp(50
              + (IF hashrate > 50 THEN 20
                 ELSE IF hashrate > 10 THEN 15
                 ELSE IF hashrate > 5 THEN 10 ELSE 0)
              + (IF fee <= 10 THEN 15
                 ELSE IF fee <= 20 THEN 10
                 ELSE IF fee <= 30 THEN 5 ELSE 0)
              + (IF luckDeviation <= 5 THEN 10
                 ELSE IF luckDeviation <= 15 THEN 5 ELSE 0)
              + (IF recent > 5 THEN 10
                 ELSE IF recent > 0 THEN 5 ELSE 0))

\* PoolController.calculateRecommendationScore (the database-backed server)
calculateRecommendationScore(pool) ==
    LET hashrate == ToNumber(Field(pool, "hashrate"))
        fee == ToNumber(Field(pool, "fee_percentage"))
        luckDeviation == Abs(100 - ToNumber(Field(pool, "luck_7d")))
        recent == ToNumber(Field(pool, "recent_blocks"))
    IN  Clamp(50
              + (IF hashrate > 50 THEN 20
                 ELSE IF hashrate > 10 THEN 15
                 ELSE IF hashrate > 5 THEN 10 ELSE 0)
              + (IF fee <= 10 THEN 15
                 ELSE IF fee <= 20 THEN 10
                 ELSE IF fee <= 30 THEN 5 ELSE 0)
              + (IF luckDeviation <= 5 THEN 10
                 ELSE IF luckDeviation <= 15 THEN 5 ELSE 0)
              + (IF recent > 5 THEN 10
                 ELSE IF recent > 0 THEN 5 ELSE 0)
              + (IF Field(pool, "payout_method") = "PPLNS" THEN 5 ELSE 0))

\* calculateRecommendationScore of simple-start.js
simpleRecommendationScore(pool) ==
    LET hashrate == ToNumber(Field(pool, "hashrate"))
        fee == ToNumber(Field(pool, "fee_percentage"))
        luckDeviation == Abs(100 - ToNumber(Field(pool, "luck_7d")))
    IN  Clamp(50
              + (IF hashrate > 50 THEN 20
                 ELSE IF hashrate > 10 THEN 15 ELSE 0)
              + (IF fee <= 10 THEN 15
                 ELSE IF fee <= 20 THEN 10 ELSE 0)
              + (IF luckDeviation <= 5 THEN 10
                 ELSE IF luckDeviation <= 15 THEN 5 ELSE 0))

\* { ...pool, recommendation_score: score }
WithScore(pool, score) ==
    [f \in DOMAIN pool \cup {"recommendation_score"} |->
        IF f = "recommendation_score" THEN score ELSE pool[f]]

\* The rows the comparison query of the database-backed server can yield for
\* one requested pool: the pool joined with its latest statistic, if it has
\* any, and the number of its blocks of the last 24 hours.
ComparedHashrates == {NONE, Num(5), Num(6), Num(10), Num(11), Num(50), Num(60)}
ComparedFees == {Num(5), Num(10), Num(11), Num(20), Num(21), Num(30), Num(31)}
ComparedLuck == {NONE, Num(84), Num(85), Num(95), Num(100), Num(106)}
ComparedBlocks == {Num(0), Num(5), Num(6)}
PayoutMethods == {"PPS", "PPLNS"}
ComparedPool(id, hashrate, fee, luck, recent, payout) ==
    [id |-> id, hashrate |-> hashrate, fee_percentage |-> fee, luck_7d |-> luck,
     recent_blocks |-> recent, payout_method |-> payout]

ComparePath == <<"api", "pools", "compare">>

\* PoolController.comparePools: 400 without ?pools=, else each row of the
\* comparison query with its recommendation_score; a query that fails goes
\* through asyncHandler to errorHandler.
comparePools(given, queryOk, rows) ==
    IF ~given
    THEN errorHandler(ComparePath, "comparePools", 400, "Pool IDs are required")
    ELSE IF ~queryOk
    THEN errorHandler(ComparePath, "comparePools", 500, "SQLITE_ERROR")
    ELSE Response(ComparePath, "comparePools", 200, "", "",
                  [i \in 1..Len(rows) |->
                      WithScore(rows[i], calculateRecommendationScore(rows[i]))])

\* The block simulation of simple-start.js.  Its time is counted in units of
\* 5 s from the start of the process.
FirstBlockNumber == 18500123   \* let blockCounter = 18500123
TwoHours == 1440               \* 2 * 60 * 60 * 1000 ms
minBlockTime == 36             \* 3 * 60 * 1000 ms
SimBlock(pool_id, block_number, timestamp) ==
    [pool_id |-> pool_id, block_number |-> block_number, timestamp |-> timestamp]
generateInitialBlocks ==
    <<SimBlock("ethermine-001", FirstBlockNumber, -TwoHours),
      SimBlock("f2pool-002", FirstBlockNumber + 1, -2 * TwoHours),
      SimBlock("flexpool-003", FirstBlockNumber + 2, -3 * TwoHours)>>

\* basePools, two of them; of a pool's variation the model keeps the trend:
\* the multipliers it steers are drawn anew for every request served.
SimPools == {"ethermine-001", "f2pool-002"}
Trends == {-1, 1}
IntervalUnits == 3             \* setInterval(..., 15000)

\* if (Math.random() < 0.1) { variation.trend *= -1; }, for every pool
updatePoolVariations == poolVariations' \in [SimPools -> Trends]

atLeastMinBlockTime(timeSinceLastBlock) == timeSinceLastBlock >= minBlockTime
\* timeSinceLastBlock > minBlockTime; the probability compared with
\* Math.random() is positive exactly then
longEnough(timeSinceLastBlock) == timeSinceLastBlock > minBlockTime

maybeGenerateNewBlock(now) ==
    \E random \in BOOLEAN :
        IF longEnough(now - lastBlockTime) /\ random
        THEN \E randomPool \in SimPools :
               LET newBlock == SimBlock(randomPool, blockCounter, now)
                   unshifted == <<newBlock>> \o dynamicBlocks
               IN  /\ blockCounter' = blockCounter + 1
                   /\ dynamicBlocks' = SubSeq(unshifted, 1,
                                         IF Len(unshifted) < 5 THEN Len(unshifted) ELSE 5)
                   /\ lastBlockTime' = now
        ELSE UNCHANGED <<blockCounter, dynamicBlocks, lastBlockTime>>

\* The setInterval callback, run 15 s after the previous one or, the event
\* loop being busy, 5 s later than that.
simulationTick ==
    /\ deployment = "simple-start.js"
    /\ \E late \in {0, 1} :
         /\ simNow + IntervalUnits + late <= MaxSimTime
         /\ simNow' = simNow + IntervalUnits + late
    /\ updatePoolVariations
    /\ maybeGenerateNewBlock(simNow')
    /\ UNCHANGED <<engineVars, fetchVars, deployment, response, jsVars, apiVars, wsVars,
                   bootVars, blockRows>>

\* ------------------------------------------------------------ simple-start.js
\* ExternalAPIService.js and the routes of simple-start.js.  The service's
\* cache maps a key to the data cached under it while the entry is younger
\* than its ttl; an entry that has outlived it is no longer in the map.  A
\* request runs against the upstream sources that are down at the time; the
\* result of a service method is [status, value, cache, parts]: status is
\* "hit" (served from the cache), "ok" (fetched), "fallback" (the fetch failed
\* and the method returned its fallback), "raised" (the method rejected).
JsSources == {"coingecko", "etherscan", "mempool"}
JsResult(status, value, c) == [status |-> status, value |-> value, cache |-> c]
JsCached(c, key) == key \in DOMAIN c
JsPut(c, key, data) == [k \in DOMAIN c \cup {key} |-> IF k = key THEN data ELSE c[k]]

JsPool(id, hashrate, fee, luck, payout) ==
    [id |-> id, hashrate |-> Num(hashrate), fee_percentage |-> Num(fee),
     luck_7d |-> Num(luck), payout_method |-> payout]

\* the pools getBitcoinMiningPools builds from a mempool.space answer
BitcoinPools(luck) ==
    <<JsPool("foundryusa-1", 60, 0, luck, "PPS"), JsPool("antpool-2", 11, 25, luck, "PPS")>>

\* generateDynamicPools() over basePools
generateDynamicPools(luck) ==
    <<JsPool("ethermine-001", 75, 10, luck, "PPLNS"), JsPool("f2pool-002", 32, 25, luck, "PPS"),
      JsPool("flexpool-003", 18, 10, luck, "PPLNS"), JsPool("2miners-004", 9, 10, luck, "PPLNS")>>

jsGetEthPrice(c, down) ==
    IF JsCached(c, "eth_price") THEN JsResult("hit", c["eth_price"], c)
    ELSE IF "coingecko" \notin down
    THEN JsResult("ok", 3000, JsPut(c, "eth_price", 3000))
    ELSE JsResult("fallback", 2500, c)

jsGetNetworkStats(c, down) ==
    IF JsCached(c, "network_stats") THEN JsResult("hit", c["network_stats"], c)
    ELSE IF "etherscan" \notin down
    THEN JsResult("ok", [gasPrice |-> 30], JsPut(c, "network_stats", [gasPrice |-> 30]))
    ELSE JsResult("fallback", [gasPrice |-> 20], c)

jsGetBitcoinMiningPools(c, down, luck) ==
    IF JsCached(c, "bitcoin_mining_pools")
    THEN JsResult("hit", c["bitcoin_mining_pools"], c)
    ELSE IF "mempool" \notin down
    THEN JsResult("ok", BitcoinPools(luck), JsPut(c, "bitcoin_mining_pools", BitcoinPools(luck)))
    ELSE JsResult("raised", <<>>, c)

jsGetRecentBlocks(c, down) ==
    IF JsCached(c, "recent_blocks") THEN JsResult("hit", c["recent_blocks"], c)
    ELSE IF "mempool" \notin down
    THEN JsResult("ok", <<900001, 900000, 899999>>,
                  JsPut(c, "recent_blocks", <<900001, 900000, 899999>>))
    ELSE JsResult("raised", <<>>, c)

jsGetAllPoolsData(c, down, luck) ==
    IF JsCached(c, "all_pools_data") THEN JsResult("hit", c["all_pools_data"], c)
    ELSE LET inner == jsGetBitcoinMiningPools(c, down, luck) IN
         IF inner.status = "raised"
         THEN JsResult("raised", <<>>, inner.cache)
         ELSE JsResult("ok", inner.value, JsPut(inner.cache, "all_pools_data", inner.value))

\* What each call of the Promise.all of getDashboardStats came to.
NoParts == [pools |-> "none", ethPrice |-> "none", networkStats |-> "none",
            recentBlocks |-> "none"]

\* getDashboardStats: result and the outcome of each of its four calls.
jsGetDashboardStats(c, down, luck) ==
    IF JsCached(c, "dashboard_stats")
    THEN [result |-> JsResult("hit", c["dashboard_stats"], c), parts |-> NoParts]
    ELSE LET pools_ == jsGetAllPoolsData(c, down, luck)
             ethPrice == jsGetEthPrice(pools_.cache, down)
             networkStats == jsGetNetworkStats(ethPrice.cache, down)
             recentBlocks == jsGetRecentBlocks(networkStats.cache, down)
             parts == [pools |-> pools_.status, ethPrice |-> ethPrice.status,
                       networkStats |-> networkStats.status,
                       recentBlocks |-> recentBlocks.status]
             stats == [active_pools |-> Len(pools_.value),
                       blocks_found_24h |-> Len(recentBlocks.value),
                       eth_price |-> ethPrice.value,
                       gas_price |-> networkStats.value.gasPrice]
         IN  IF pools_.status = "raised" \/ recentBlocks.status = "raised"
             THEN [result |-> JsResult("raised", <<>>, recentBlocks.cache), parts |-> parts]
             ELSE [result |-> JsResult("ok", stats,
                                       JsPut(recentBlocks.cache, "dashboard_stats", stats)),
                   parts |-> parts]

\* pools.find(p => p.id === id)
RECURSIVE FindPool(_, _)
FindPool(ps, id) ==
    IF ps = <<>> THEN <<>>
    ELSE IF Head(ps).id = id THEN <<Head(ps)>> ELSE FindPool(Tail(ps), id)

\* pools.filter(p => poolIds.includes(p.id)) with the scores appended
RECURSIVE FilterScored(_, _)
FilterScored(ps, ids) ==
    IF ps = <<>> THEN <<>>
    ELSE (IF Head(ps).id \in ids
          THEN <<WithScore(Head(ps), simpleRecommendationScore(Head(ps)))>>
          ELSE <<>>) \o FilterScored(Tail(ps), ids)

\* The handlers of simple-start.js: [response, cache, parts].
Handled(resp, c, parts) == [response |-> resp, cache |-> c, parts |-> parts]

simplePools(path, c, down, luck) ==
    LET r == jsGetAllPoolsData(c, down, luck) IN
    IF r.status = "raised"
    THEN Handled(Response(path, "pools", 503, "Failed to fetch real mining pool data",
                          "", <<>>), r.cache, NoParts)
    ELSE Handled(Response(path, "pools", 200, "", "", r.value), r.cache, NoParts)

simpleFound(path, handler, found, source) ==
    IF found = <<>>
    THEN Response(path, handler, 404, "Pool not found", "", <<>>)
    ELSE Response(path, handler, 200, "", source, found)

simplePoolById(path, c, down, luck) ==
    LET r == jsGetAllPoolsData(c, down, luck) IN
    IF r.status = "raised"
    THEN Handled(simpleFound(path, "poolById", FindPool(generateDynamicPools(luck), path[3]),
                             "fallback"), r.cache, NoParts)
    ELSE Handled(simpleFound(path, "poolById", FindPool(r.value, path[3]), ""),
                 r.cache, NoParts)

simpleCompare(path, ids, c, down, luck) ==
    LET r == jsGetAllPoolsData(c, down, luck) IN
    IF r.status = "raised"
    THEN Handled(Response(path, "compare", 200, "", "fallback",
                          FilterScored(generateDynamicPools(luck), ids)), r.cache, NoParts)
    ELSE Handled(Response(path, "compare", 200, "", "", FilterScored(r.value, ids)),
                 r.cache, NoParts)

simpleDashboard(path, c, down, luck) ==
    LET r == jsGetDashboardStats(c, down, luck) IN
    IF r.result.status = "raised"
    THEN Handled(Response(path, "dashboard", 503,
                          "Failed to fetch real dashboard statistics", "", <<>>),
                 r.result.cache, r.parts)
    ELSE Handled(Response(path, "dashboard", 200, "", "", <<r.result.value>>),
                 r.result.cache, r.parts)

\* the 24 points of the history are derived from the pool found
HistoryOf(found) == IF found = <<>> THEN <<>> ELSE <<[pool_id |-> found[1].id, points |-> 24]>>

simpleHistory(path, c, down, luck) ==
    LET r == jsGetAllPoolsData(c, down, luck) IN
    IF r.status = "raised"
    THEN Handled(simpleFound(path, "history",
                             HistoryOf(FindPool(generateDynamicPools(luck), path[3])),
                             "fallback"), r.cache, NoParts)
    ELSE Handled(simpleFound(path, "history", HistoryOf(FindPool(r.value, path[3])), ""),
                 r.cache, NoParts)

simpleHandle(path, ids, c, down, luck) ==
    LET handler == Dispatch(SimpleRoutes, path) IN
    CASE handler = "pools" -> simplePools(path, c, down, luck)
      [] handler = "poolById" -> simplePoolById(path, c, down, luck)
      [] handler = "compare" -> simpleCompare(path, ids, c, down, luck)
      [] handler = "dashboard" -> simpleDashboard(path, c, down, luck)
      [] handler = "history" -> simpleHistory(path, c, down, luck)
      [] OTHER -> Handled(Response(path, handler, 404, "Route not found", "", <<>>),
                          c, NoParts)

SimplePoolIds == {"foundryusa-1", "ethermine-001", "nopool"}
SimpleLuck == {100}
SimplePaths ==
    {<<"api", "pools">>, ComparePath, <<"api", "stats", "dashboard">>}
    \cup {<<"api", "pools", id>> : id \in SimplePoolIds}
    \cup {<<"api", "pools", id, "history">> : id \in SimplePoolIds}

\* simple-start.js answers GET path?pools=ids.
SimpleRequest(path) ==
    /\ deployment = "simple-start.js"
    /\ \E down \in SUBSET JsSources, luck \in SimpleLuck,
          ids \in (IF path = ComparePath THEN SUBSET SimplePoolIds ELSE {{}}) :
         LET h == simpleHandle(path, ids, jsCache, down, luck) IN
         /\ response' = h.response
         /\ jsCache' = h.cache
         /\ jsParts' = h.parts
    /\ UNCHANGED simpleRest

\* A cache entry of ExternalAPIService.js outlives its ttl.
JsExpire ==
    /\ deployment = "simple-start.js"
    /\ \E key \in DOMAIN jsCache :
         jsCache' = [k \in DOMAIN jsCache \ {key} |-> jsCache[k]]
    /\ UNCHANGED <<response, jsParts, simpleRest>>

\* The database-backed server answers GET /api/pools/compare.
ServerCompare ==
    /\ deployment = "server.ts"
    /\ Dispatch(PoolRoutes, ComparePath) = "comparePools"
    /\ \/ \E given \in BOOLEAN, queryOk \in BOOLEAN :
              response' = comparePools(given, queryOk, <<>>)
       \/ \E hashrate \in ComparedHashrates, fee \in ComparedFees,
             luck \in ComparedLuck, recent \in ComparedBlocks, payout \in PayoutMethods :
              response' = comparePools(TRUE, TRUE,
                             <<ComparedPool("p1", hashrate, fee, luck, recent, payout)>>)
    /\ UNCHANGED <<controllerRest, apiVars, pools, poolStats, subs, history>>

\* GET /api/pools/compare on the server that runs.
GetPoolsCompare == ServerCompare \/ SimpleRequest(ComparePath)

\* ------------------------------------------------------------ AlertController
\* The alert routes of the database-backed server.  A falsy pool_id of a
\* request (undefined, null, '') and the NULL of the column are both NullId.
\* The ids generateId() hands out are 1, 2, ... in the order of creation.
MaxSubscriptions == 2    \* POST /api/alerts/subscribe answered 201 in a run

Emails == {"a@x.io", "b@x.io"}
ValidAlertTypes ==
    {"hashrate_drop", "pool_offline", "luck_streak", "new_block", "profitability_change"}
Subscription(id, email, pool, type, threshold) ==
    [id |-> id, email |-> email, pool_id |-> pool, alert_type |-> type,
     threshold |-> threshold, is_active |-> 1]
Body(email, pool, type, threshold) ==
    [email |-> email, pool_id |-> pool, alert_type |-> type, threshold |-> threshold]

\* UNIQUE(email, pool_id, alert_type): SQL compares a NULL as distinct from
\* every value, another NULL included.
uniqueConstraintFailed(rows, row) ==
    \E i \in 1..Len(rows) :
        /\ rows[i].email = row.email
        /\ rows[i].alert_type = row.alert_type
        /\ rows[i].pool_id # NullId /\ row.pool_id # NullId
        /\ rows[i].pool_id = row.pool_id

\* SELECT id FROM pools WHERE id = ?
poolExists(id) == \E i \in 1..Len(pools) : pools[i].id = id

RECURSIVE Reverse(_)
Reverse(rows) == IF rows = <<>> THEN <<>> ELSE Reverse(Tail(rows)) \o <<Head(rows)>>

Reply(r) == response' = r
SubscribePath == <<"api", "alerts", "subscribe">>

\* POST /api/alerts/subscribe
createSubscription(email, pool_id, alert_type, threshold) ==
    /\ deployment = "server.ts"
    /\ Len(requested) < MaxSubscriptions
    /\ LET row == Subscription(Len(requested) + 1, email, pool_id, alert_type,
                               IF noThreshold(threshold) THEN NONE ELSE threshold)
           fail(status, error) ==
               /\ Reply(errorHandler(SubscribePath, "createSubscription", status, error))
               /\ UNCHANGED <<subs, requested>>
       IN  IF email = "" \/ alert_type = ""
           THEN fail(400, "Email and alert_type are required")
           ELSE IF email \notin Emails
           THEN fail(400, "Invalid email format")
           ELSE IF alert_type \notin ValidAlertTypes
           THEN fail(400, "Invalid alert_type")
           ELSE IF pool_id # NullId /\ ~poolExists(pool_id)
           THEN fail(404, "Pool not found")
           ELSE IF uniqueConstraintFailed(subs, row)
           THEN fail(409, "Alert subscription already exists")
           ELSE \E ok \in BOOLEAN :
                  IF ok
                  THEN /\ subs' = Append(subs, row)
                       /\ requested' = Append(requested,
                                              Body(email, pool_id, alert_type, threshold))
                       /\ Reply(Response(SubscribePath, "createSubscription", 201, "", "",
                                         <<row>>))
                  ELSE fail(500, "SQLITE_ERROR")
    /\ UNCHANGED <<controllerRest, deleted, pools, poolStats, history>>

\* GET /api/alerts/manage/:email: the rows of that email, latest first
getSubscriptionsByEmail(email) ==
    /\ deployment = "server.ts"
    /\ LET path == <<"api", "alerts", "manage", email>>
           mine(row) == row.email = email
       IN  IF email \notin Emails
           THEN Reply(errorHandler(path, "getSubscriptionsByEmail", 400,
                                   "Invalid email format"))
           ELSE \E ok \in BOOLEAN :
                  Reply(IF ok
                        THEN Response(path, "getSubscriptionsByEmail", 200, "", "",
                                      Reverse(SelectSeq(subs, mine)))
                        ELSE errorHandler(path, "getSubscriptionsByEmail", 500,
                                          "SQLITE_ERROR"))
    /\ UNCHANGED <<controllerRest, apiVars, pools, poolStats, subs, history>>

\* The alert passes once the rows in gone have left alert_history: the row a
\* pass has inserted is the same row as before, or none.
HistoryDeleted(gone) ==
    [i \in 1..Len(alertPasses) |->
        [alertPasses[i] EXCEPT !.row = RowAfterDelete(@, gone)]]

\* DELETE /api/alerts/:id; alert_history.subscription_id is ON DELETE CASCADE
deleteSubscription(id) ==
    /\ deployment = "server.ts"
    /\ LET path == <<"api", "alerts", ToString(id)>>
           others(row) == row.id # id
           ofOthers(h) == h.subscription_id # id
           gone == {r \in 1..Len(history) : history[r].subscription_id = id}
       IN  IF \A i \in 1..Len(subs) : subs[i].id # id
           THEN /\ Reply(errorHandler(path, "deleteSubscription", 404,
                                      "Alert subscription not found"))
                /\ UNCHANGED <<subs, history, deleted, alertPasses>>
           ELSE \E ok \in BOOLEAN :
                  IF ok
                  THEN /\ subs' = SelectSeq(subs, others)
                       /\ history' = SelectSeq(history, ofOthers)
                       /\ alertPasses' = HistoryDeleted(gone)
                       /\ deleted' = deleted \cup {id}
                       /\ Reply(Response(path, "deleteSubscription", 200, "", "", <<>>))
                  ELSE /\ Reply(errorHandler(path, "deleteSubscription", 500,
                                             "SQLITE_ERROR"))
                       /\ UNCHANGED <<subs, history, deleted, alertPasses>>
    /\ UNCHANGED <<deleteRest, requested, pools, poolStats, blockRows>>

\* A field of a request body: left out (undefined), or given with a value.
Absent == <<>>
Given(v) == <<v>>

\* PUT /api/alerts/:id with the body { threshold, is_active }
updateSubscription(id, threshold, is_active) ==
    /\ deployment = "server.ts"
    /\ LET path == <<"api", "alerts", ToString(id)>>
           updated(row) ==
               IF row.id # id THEN row
               ELSE [row EXCEPT
                       !.threshold = IF threshold # Absent THEN threshold[1] ELSE @,
                       !.is_active = IF is_active = Absent THEN @
                                     ELSE IF is_active[1] THEN 1 ELSE 0]
           isRow(row) == row.id = id
       IN  IF \A i \in 1..Len(subs) : subs[i].id # id
           THEN /\ Reply(errorHandler(path, "updateSubscription", 404,
                                      "Alert subscription not found"))
                /\ UNCHANGED subs
           ELSE IF threshold = Absent /\ is_active = Absent
           THEN /\ Reply(errorHandler(path, "updateSubscription", 400,
                                      "No valid fields to update"))
                /\ UNCHANGED subs
           ELSE \E ok \in BOOLEAN :
                  IF ok
                  THEN /\ subs' = [i \in 1..Len(subs) |-> updated(subs[i])]
                       /\ Reply(Response(path, "updateSubscription", 200, "", "",
                                         SelectSeq(subs', isRow)))
                  ELSE /\ Reply(errorHandler(path, "updateSubscription", 500,
                                             "SQLITE_ERROR"))
                       /\ UNCHANGED subs
    /\ UNCHANGED <<deleteRest, apiVars, pools, poolStats, blockRows, history, alertPasses>>

\* DELETE FROM pools WHERE id = ?, which no route of the server issues: the
\* schema's ON DELETE CASCADE of pool_statistics.pool_id and
\* blocks.pool_id and alert_subscriptions.pool_id, and through the latter of
\* alert_history.subscription_id, and the ON DELETE SET NULL of
\* alert_history.pool_id.
deletePool(id) ==
    /\ \E i \in 1..Len(pools) : pools[i].id = id
    /\ LET others(row) == row.id # id
           ofOthers(row) == row.pool_id # id
           kept == SelectSeq(subs, ofOthers)
           ofKept(h) == \E i \in 1..Len(kept) : kept[i].id = h.subscription_id
           gone == {r \in 1..Len(history) : ~ofKept(history[r])}
           rest == SelectSeq(history, ofKept)
       IN  /\ pools' = SelectSeq(pools, others)
           /\ poolStats' = SelectSeq(poolStats, ofOthers)
           /\ subs' = kept
           /\ history' = [r \in 1..Len(rest) |->
                             IF rest[r].pool_id = id THEN [rest[r] EXCEPT !.pool_id = NullId]
                             ELSE rest[r]]
           /\ blockRows' = SelectSeq(blockRows, ofOthers)
           /\ alertPasses' = HistoryDeleted(gone)
    /\ UNCHANGED <<deleteRest, response, apiVars>>

\* The requests made to the alert routes.
RequestEmails == Emails \cup {"", "nobody"}
RequestPools == {NullId, "p1", "p9"}
RequestTypes == {"hashrate_drop", "no_such_type"}
RequestThresholds == {NONE, Num(0), Num(10)}
AlertRequest ==
    \/ \E email \in RequestEmails, pool_id \in RequestPools, alert_type \in RequestTypes,
          threshold \in RequestThresholds :
         createSubscription(email, pool_id, alert_type, threshold)
    \/ \E email \in RequestEmails : getSubscriptionsByEmail(email)
    \/ \E id \in 1..MaxSubscriptions : deleteSubscription(id)

\* ----------------------------------------------------------- WebSocketService
\* A socket is unconnected until its 'connection' event, then OPEN, possibly
\* CLOSING, and CLOSED from its 'close' event on.  What the peer of a socket is
\* sent is the serialized message: [type, data].  The data of a broadcast is
\* its number, which stands for its payload and timestamp.
MaxBroadcasts == 2      \* broadcast() calls in a run
MaxInbound == 1         \* 'message' events in a run

Sockets == {"w1", "w2"}
Connected == {s \in Sockets : readyState[s] # "unconnected"}
NoEvent == [kind |-> "none", socket |-> "", frame |-> "", open |-> {}, threw |-> {}]

\* The text frames a client sends: a ping, a subscribe with data "pools", with
\* data 1e999, without data, a message of another type, the JSON text null,
\* and a text that is not JSON.
Frames == {"ping", "subscribe pools", "subscribe 1e999", "subscribe", "hello", "null",
           "not json"}

\* JSON.parse(data.toString()): a number beyond the doubles parses to Infinity.
JsonParse(frame) ==
    CASE frame = "ping" -> [type |-> "ping", data |-> "undefined"]
      [] frame = "subscribe pools" -> [type |-> "subscribe", data |-> "pools"]
      [] frame = "subscribe 1e999" -> [type |-> "subscribe", data |-> "Infinity"]
      [] frame = "subscribe" -> [type |-> "subscribe", data |-> "undefined"]
      [] frame = "hello" -> [type |-> "hello", data |-> "undefined"]
      [] frame = "null" -> [type |-> "TypeError", data |-> "undefined"]
      [] OTHER -> [type |-> "SyntaxError", data |-> "undefined"]

\* JSON.stringify of a reply: an undefined field is left out, Infinity is null.
JsonStringify(type, data) ==
    [type |-> type,
     data |-> CASE data = "undefined" -> "absent"
                [] data = "Infinity" -> "null"
                [] OTHER -> data]

noReply(message) == <<>>
\* handleClientMessage: the replies handed to sendToClient
handleClientMessage(message) ==
    CASE message.type = "ping" -> <<JsonStringify("pong", "undefined")>>
      [] message.type = "subscribe" ->
           <<JsonStringify("subscription_confirmed", message.data)>>
      [] OTHER -> <<>>

\* sendToClient: nothing is sent unless the socket is OPEN; a send that throws
\* is logged.
sendToClient(ws, messages, throws) ==
    IF readyState[ws] = "open" /\ ~throws
    THEN [received EXCEPT ![ws] = @ \o messages]
    ELSE received

\* wss.on('connection'): the socket joins the set and is sent the welcome.
wsConnection(ws) ==
    /\ readyState[ws] = "unconnected"
    /\ readyState' = [readyState EXCEPT ![ws] = "open"]
    /\ clients' = clients \cup {ws}
    /\ \E throws \in BOOLEAN :
         received' = [received EXCEPT ![ws] =
                         IF throws THEN @
                         ELSE Append(@, JsonStringify("connection", "undefined"))]
    /\ UNCHANGED <<handled, broadcasts, inbound, lastEvent, wsRest>>

\* The closing handshake of a socket begins; no handler of the service runs.
wsClosing(ws) ==
    /\ readyState[ws] = "open"
    /\ readyState' = [readyState EXCEPT ![ws] = "closing"]
    /\ UNCHANGED <<clients, received, handled, broadcasts, inbound, lastEvent, wsRest>>

\* ws.on('close')
wsClose(ws) ==
    /\ readyState[ws] \in {"open", "closing"}
    /\ readyState' = [readyState EXCEPT ![ws] = "closed"]
    /\ clients' = clients \ {ws}
    /\ handled' = handled \cup {ws}
    /\ UNCHANGED <<received, broadcasts, inbound, lastEvent, wsRest>>

\* ws.on('error')
wsError(ws) ==
    /\ readyState[ws] \in {"open", "closing"}
    /\ clients' = clients \ {ws}
    /\ handled' = handled \cup {ws}
    /\ UNCHANGED <<readyState, received, broadcasts, inbound, lastEvent, wsRest>>

\* ws.on('message'): a frame arrives on a socket that is not closed yet.
wsMessage(ws, frame) ==
    /\ inbound < MaxInbound
    /\ readyState[ws] \in {"open", "closing"}
    /\ inbound' = inbound + 1
    /\ \E throws \in BOOLEAN :
         /\ received' = sendToClient(ws, handleClientMessage(JsonParse(frame)), throws)
         /\ lastEvent' = [kind |-> "message", socket |-> ws, frame |-> frame,
                          open |-> {c \in {ws} : readyState[c] = "open"},
                          threw |-> IF throws THEN {ws} ELSE {}]
    /\ UNCHANGED <<clients, readyState, handled, broadcasts, wsRest>>

everyClient(cs) == cs
\* the clients broadcast() sends to
openClients(cs) == {c \in cs : readyState[c] = "open"}

\* broadcast(data): the message goes to every client that is OPEN; a client
\* that is not, or whose send throws, leaves the set.
broadcast(type) ==
    /\ broadcasts < MaxBroadcasts
    /\ broadcasts' = broadcasts + 1
    /\ \E threw \in SUBSET openClients(clients) :
         /\ received' = [c \in Sockets |->
                IF c \in openClients(clients) \ threw
                THEN Append(received[c], [type |-> type, data |-> broadcasts + 1])
                ELSE received[c]]
         /\ clients' = openClients(clients) \ threw
         /\ lastEvent' = [kind |-> "broadcast", socket |-> "", frame |-> type,
                          open |-> {c \in clients : readyState[c] = "open"},
                          threw |-> threw]
    /\ UNCHANGED <<readyState, handled, inbound, wsRest>>

BroadcastTypes == {"pool_update"}
NextWebSocket ==
    \/ \E ws \in Sockets : wsConnection(ws) \/ wsClosing(ws) \/ wsClose(ws) \/ wsError(ws)
    \/ \E ws \in Sockets, frame \in Frames : wsMessage(ws, frame)
    \/ \E type \in BroadcastTypes : broadcast(type)

\* ------------------------------------------------------------- setupServices
\* Server.setupServices() and DatabaseService.initialize() over SQLite.  The
\* Server constructor and Server.start() each call setupServices(), so one
\* process makes two runs, each with a DatabaseService and a connection of its
\* own; runs of different processes are concurrent startups.  A connection's
\* transaction holds its rows until COMMIT; it takes the SHARED lock with its
\* first read, the RESERVED lock with its first write, and commits only while
\* no other connection holds SHARED.
MaxRuns == 2             \* setupServices() runs in flight together

Runs == 1..MaxRuns
Controllers == {"pools", "alerts", "stats"}
SamplePools == <<"Ethermine", "F2Pool", "Flexpool", "2miners">>
\* a row of the seed: its id is random, so no two runs make the same one
SamplePool(run, name) ==
    [id |-> name \o "#" \o ToString(run), status |-> "active", name |-> name]
Run(pc, k, txPools, txStats, shared, reserved) ==
    [pc |-> pc, k |-> k, pools |-> txPools, stats |-> txStats, shared |-> shared,
     reserved |-> reserved]
NewRun == Run("new", 1, <<>>, <<>>, FALSE, FALSE)
Over(pc) == Run(pc, 1, <<>>, <<>>, FALSE, FALSE)
Finished(run) == runs[run].pc \in {"done", "failed", "killed"}
\* the runs that end with the process of this run
SameProcess(run) == IF sameProcess THEN Runs ELSE {run}
\* process.exit(1) has ended the process the requests go to
Exited == \E run \in SameProcess(1) : runs[run].pc = "failed"

\* setupServices past its await: the controllers of the run's process are set
\* (the requests of the model go to the process of run 1).
Completes(run) ==
    /\ runs' = [runs EXCEPT ![run] = Over("done")]
    /\ controllers' = IF run \in SameProcess(1) THEN Controllers ELSE controllers
    /\ serviceDb' = IF run \in SameProcess(1) THEN databaseService ELSE serviceDb

\* catch (error) { ...; process.exit(1) }: the run's process ends, and so does
\* every other run of it; what their connections had not committed is gone.
Exits(run) ==
    /\ runs' = [r \in Runs |->
                   IF r = run THEN Over("failed")
                   ELSE IF r \in SameProcess(run) /\ ~Finished(r) THEN Over("killed")
                   ELSE runs[r]]
    /\ UNCHANGED <<controllers, serviceDb>>

Goes(run, next) ==
    runs' = [runs EXCEPT ![run] = next] /\ UNCHANGED <<controllers, serviceDb>>
Alive(run, pc) == runs[run].pc = pc /\ ~(run \in SameProcess(1) /\ Exited)

\* initialize() up to seedData(): the connection is opened and the schema run;
\* without DEV_SEED_DATA seedData() returns at once.
runOpen(run) ==
    /\ Alive(run, "new")
    /\ \E ok \in BOOLEAN :
         IF ~ok THEN Exits(run)
         ELSE IF ~seedEnv THEN Completes(run)
         ELSE Goes(run, [runs[run] EXCEPT !.pc = "begin"])
    /\ UNCHANGED <<pools, poolStats, bootRest>>

\* seedData: beginTransaction()
runBegin(run) ==
    /\ Alive(run, "begin")
    /\ \E ok \in BOOLEAN :
         Goes(run, [runs[run] EXCEPT !.pc = IF ok THEN "count" ELSE "rollback"])
    /\ UNCHANGED <<pools, poolStats, bootRest>>

anyCount(count) == TRUE
\* if (count === 0)
noPools(count) == count = 0

\* seedData: SELECT COUNT(*) as count FROM pools; if (count === 0) ...
runCount(run) ==
    /\ Alive(run, "count")
    /\ \E ok \in BOOLEAN :
         Goes(run, IF ~ok THEN [runs[run] EXCEPT !.pc = "rollback"]
                   ELSE [runs[run] EXCEPT !.shared = TRUE,
                                           !.pc = IF noPools(Len(pools)) THEN "insert"
                                                  ELSE "commit"])
    /\ UNCHANGED <<pools, poolStats, bootRest>>

\* pools.name is UNIQUE
nameIsFree(rows, name) == \A i \in 1..Len(rows) : rows[i].name # name

\* seedData: INSERT INTO pools and INSERT INTO pool_statistics of one sample
\* pool.  SQLITE_BUSY if another connection holds the RESERVED lock.
runInsert(run) ==
    /\ Alive(run, "insert")
    /\ LET name == SamplePools[runs[run].k]
           row == SamplePool(run, name)
           busy == \E other \in Runs \ {run} : runs[other].reserved
       IN  \E ok \in BOOLEAN :
             Goes(run, IF ok /\ ~busy /\ nameIsFree(pools \o runs[run].pools, name)
                       THEN [runs[run] EXCEPT
                                !.reserved = TRUE,
                                !.pools = Append(@, row),
                                !.stats = Append(@, Stat(row.id, clock, 1000)),
                                !.k = @ + 1,
                                !.pc = IF runs[run].k = Len(SamplePools) THEN "commit"
                                       ELSE "insert"]
                       ELSE [runs[run] EXCEPT !.pc = "rollback"])
    /\ UNCHANGED <<pools, poolStats, bootRest>>

\* seedData: commit(), and with it the end of initialize() and of
\* setupServices().  A writer's COMMIT waits while another connection holds
\* SHARED, and fails if the wait times out.
runCommit(run) ==
    /\ Alive(run, "commit")
    /\ LET readers == \E other \in Runs \ {run} : runs[other].shared IN
       \E ok \in BOOLEAN :
         IF ok /\ ~(runs[run].reserved /\ readers)
         THEN /\ pools' = pools \o runs[run].pools
              /\ poolStats' = poolStats \o runs[run].stats
              /\ Completes(run)
         ELSE /\ ~ok \/ readers
              /\ Goes(run, [runs[run] EXCEPT !.pc = "rollback"])
              /\ UNCHANGED <<pools, poolStats>>
    /\ UNCHANGED bootRest

\* seedData: catch (error) { await this.rollback(); throw error; }
runRollback(run) ==
    /\ Alive(run, "rollback")
    /\ Exits(run)
    /\ UNCHANGED <<pools, poolStats, bootRest>>

\* Every process is started again once all runs are over.
restart ==
    /\ \A run \in Runs : Finished(run)
    /\ runs' = [run \in Runs |-> NewRun]
    /\ controllers' = {}
    /\ serviceDb' = 0
    /\ UNCHANGED <<pools, poolStats, bootRest>>

\* Server.start() up to its await: the second call of setupServices(), which
\* puts a new DatabaseService into the field and calls its initialize().
start ==
    /\ runs[2].pc = "unstarted"
    /\ ~Exited
    /\ runs' = [runs EXCEPT ![2] = NewRun]
    /\ databaseService' = 2
    /\ UNCHANGED <<controllers, serviceDb, engineDb, pools, poolStats, deployment, response,
                   clock, tz, subs, history, dispatched, dbFailed, alertVars, collVars,
                   fetchVars, jsVars, apiVars, wsVars, nodeEnv, seedEnv, sameProcess,
                   sideVars>>

\* Server.start() past its await: listen(), then startDataCollection() and
\* startAlertProcessing() of the services the fields hold.
startContinues ==
    /\ runs[2].pc = "done"
    /\ ~Exited
    /\ engineDb = 0
    /\ serviceDb # 0
    /\ engineDb' = serviceDb
    /\ collRunning' = TRUE
    /\ collPasses' = Append(collPasses, NewCollPass)
    /\ collHandle' = TRUE
    /\ collTimers' = collTimers + 1
    /\ alertRunning' = TRUE
    /\ alertPasses' = Append(alertPasses, NewAlertPass)
    /\ alertHandle' = TRUE
    /\ alertTimers' = alertTimers + 1
    /\ UNCHANGED <<controllers, runs, databaseService, serviceDb, pools, poolStats,
                   deployment, response, clock, tz, subs, history, dispatched, dbFailed,
                   fetchVars, jsVars, apiVars, wsVars, nodeEnv, seedEnv, sameProcess,
                   sideVars>>

setupServices ==
    \E run \in Runs :
        \/ runOpen(run) \/ runBegin(run) \/ runCount(run)
        \/ runInsert(run) \/ runCommit(run) \/ runRollback(run)

\* ---------------------------------------------------------------- route guards
alwaysInitialized(router) == TRUE
\* if (!poolController) / if (!alertController) / if (!statsController)
isInitialized(router) == router \in controllers

\* return next(createError('Service not initialized', 500))
notInitialized(path) ==
    /\ Reply(errorHandler(path, "routeGuard", 500, "Service not initialized"))
    /\ UNCHANGED <<controllerRest, apiVars, pools, poolStats, subs, history>>

\* PoolController.getPoolById (the columns of the latest statistic left out)
getPoolById(id) ==
    /\ LET path == <<"api", "pools", id>>
           found == FindPool(pools, id)
       IN  Reply(IF found = <<>>
                 THEN errorHandler(path, "getPoolById", 404, "Pool not found")
                 ELSE Response(path, "getPoolById", 200, "", "", found))
    /\ UNCHANGED <<controllerRest, apiVars, pools, poolStats, subs, history>>

\* StatsController.getDashboardStats (active_pools only)
getDashboardStats ==
    /\ Reply(Response(<<"api", "stats", "dashboard">>, "getDashboardStats", 200, "", "",
                      <<[active_pools |-> Len(ActivePools)]>>))
    /\ UNCHANGED <<controllerRest, apiVars, pools, poolStats, subs, history>>

\* A request to a route of one of the three routers of the process.
Routed(router, path, controllerMethod) ==
    /\ ~Exited
    /\ IF isInitialized(router) THEN controllerMethod ELSE notInitialized(path)

RoutedRequest ==
    \/ \E pool_id \in {NullId, "p1"} :
         Routed("alerts", SubscribePath,
                createSubscription("a@x.io", pool_id, "hashrate_drop", Num(10)))
    \/ Routed("alerts", <<"api", "alerts", "manage", "a@x.io">>,
              getSubscriptionsByEmail("a@x.io"))
    \/ Routed("alerts", <<"api", "alerts", ToString(1)>>, deleteSubscription(1))
    \/ \E id \in {"p1", "p9"} : Routed("pools", <<"api", "pools", id>>, getPoolById(id))
    \/ Routed("stats", <<"api", "stats", "dashboard">>, getDashboardStats)

\* ----------------------------------------------------------- specifications
SubIds == {"s1", "s2", "s3", "s4"}
HashrateValues == {800, 850, 900, 930, 1000}
Thresholds == {7, 15}

Offline1 == Sub("s1", "p1", "pool_offline", NONE, 1)
Drop2(t) == Sub("s2", "p2", "hashrate_drop", Num(t), 1)
Luck3(pool, t) == Sub("s3", pool, "luck_streak", t, 1)
NewBlock4(pool) == Sub("s4", pool, "new_block", NONE, 1)
HistoryRow(sub, pool, ts) ==
    [subscription_id |-> sub, triggered_at |-> ts, email_sent |-> 1, pool_id |-> pool,
     trigger_value |-> 0, running |-> TRUE]

InitFields ==
    /\ clock = 0
    /\ dispatched = [s \in SubIds |-> 0]
    /\ dbFailed = FALSE
    /\ alertRunning = FALSE /\ alertHandle = FALSE /\ alertTimers = 0
    /\ alertPasses = <<>>
    /\ collRunning = FALSE /\ collHandle = FALSE /\ collTimers = 0
    /\ collPasses = <<>>
    /\ dateNow = 0
    /\ cache = <<>>
    /\ calls = [m \in Methods |-> Idle]
    /\ callCount = 0
    /\ aggregateCount = 0
    /\ response = NoResponse
    /\ jsCache = <<>>
    /\ jsParts = NoParts
    /\ requested = <<>>
    /\ deleted = {}
    /\ clients = {}
    /\ readyState = [ws \in Sockets |-> "unconnected"]
    /\ received = [ws \in Sockets |-> <<>>]
    /\ handled = {}
    /\ broadcasts = 0
    /\ inbound = 0
    /\ lastEvent = NoEvent
    /\ simNow = 0
    /\ lastBlockTime = -TwoHours
    /\ blockCounter = FirstBlockNumber + 3
    /\ dynamicBlocks = generateInitialBlocks
InitConstructed == InitFields /\ poolVariations = [p \in SimPools |-> 1]

\* The services set up over a seeded database, every run of setupServices over.
SetUp ==
    /\ databaseService = MaxRuns /\ serviceDb = MaxRuns /\ engineDb = 0
    /\ controllers = Controllers
    /\ nodeEnv = "production"
    /\ seedEnv = FALSE
    /\ sameProcess = TRUE
    /\ runs = [run \in Runs |-> Over("done")]
InitSetUp == InitConstructed /\ SetUp
InitSeeded == InitSetUp /\ pools = SeedPools
InitServices == InitSeeded /\ blockRows = <<>>

\* The database-backed server with both engines stopped.
InitStopped == InitServices /\ deployment = "server.ts"

AlertStep ==
    \/ startAlertProcessing
    \/ stopAlertProcessing
    \/ alertIntervalFires
    \/ \E i \in 1..MaxPasses : AlertLoad(i)
    \/ \E i \in 1..MaxPasses : AlertCheck(i)
    \/ \E i \in 1..MaxPasses : AlertTrigCheck(i)
    \/ \E i \in 1..MaxPasses : AlertTrigInsert(i)
    \/ \E i \in 1..MaxPasses : AlertDispatch(i)
    \/ \E i \in 1..MaxPasses : AlertTrigUpdate(i)

CollStep ==
    \/ startDataCollection
    \/ stopDataCollection
    \/ collIntervalFires
    \/ \E i \in 1..MaxPasses : CollLoad(i)
    \/ \E i \in 1..MaxPasses : CollInsert(i)

\* The alert engine over a seeded database, with time passing: one pool_offline
\* subscription whose pool has been silent for 11 minutes, and an earlier firing
\* that is, at time 0, exactly one hour or 59 minutes old.
InitAlert ==
    /\ InitStopped
    /\ tz = 0
    /\ subs = <<Offline1>>
    /\ poolStats = <<Stat("p1", -11, 1000)>>
    /\ history \in {<<>>, <<HistoryRow("s1", "p1", -CooldownMinutes)>>,
                    <<HistoryRow("s1", "p1", 1 - CooldownMinutes)>>}

NextAlertEngine == AlertStep \/ Tick
SpecAlert == InitAlert /\ [][NextAlertEngine]_vars

\* The same with the engine stopped and started again instead of the interval
\* coming round: every pass is the immediate one of a startAlertProcessing.
NextRestart ==
    \/ startAlertProcessing
    \/ stopAlertProcessing
    \/ \E i \in 1..MaxPasses : AlertLoad(i)
    \/ \E i \in 1..MaxPasses : AlertCheck(i)
    \/ \E i \in 1..MaxPasses : AlertTrigCheck(i)
    \/ \E i \in 1..MaxPasses : AlertTrigInsert(i)
    \/ \E i \in 1..MaxPasses : AlertDispatch(i)
    \/ \E i \in 1..MaxPasses : AlertTrigUpdate(i)
    \/ Tick
SpecRestart == InitAlert /\ [][NextRestart]_vars

\* The two engines, each exercised while the other one is idle: they share no
\* field, and the only table one of them writes and the other reads
\* (pool_statistics) is seeded for the alert engine's checks.
AlertIdle == alertPasses = <<>> /\ ~alertRunning
CollIdle == collPasses = <<>> /\ ~collRunning

InitEngines ==
    /\ InitStopped
    /\ tz = 0
    /\ subs = <<Offline1, Drop2(15)>>
    /\ poolStats = <<Stat("p1", -11, 1000), Stat("p2", -2, 1000), Stat("p2", -1, 800)>>
    /\ history = <<>>

NextEngines == (CollIdle /\ AlertStep) \/ (AlertIdle /\ CollStep)
SpecEngines == InitEngines /\ [][NextEngines]_vars

\* The engines for as long as they are left running: the timers keep firing,
\* every persistence call returns or fails in the end, and finished passes are
\* collected.  (The model holds MaxPasses passes of an engine at a time; the
\* timer's callback waits while it holds as many.)
AlertPassStep ==
    \E i \in 1..MaxPasses :
        \/ AlertLoad(i) \/ AlertCheck(i) \/ AlertTrigCheck(i)
        \/ AlertTrigInsert(i) \/ AlertDispatch(i) \/ AlertTrigUpdate(i)
CollPassStep == \E i \in 1..MaxPasses : CollLoad(i) \/ CollInsert(i)
InitTicking ==
    /\ InitStopped
    /\ tz = 0
    /\ subs = <<Offline1>>
    /\ poolStats = <<Stat("p3", -30, 1000), Stat("p3", -29, 1000), Stat("p3", -28, 1000),
                     Stat("p3", -27, 1000), Stat("p1", -11, 1000), Stat("p2", -2, 1000),
                     Stat("p2", -1, 800)>>
    /\ history = <<>>
NextTicking == NextEngines \/ Collect
SpecTicking ==
    /\ InitTicking
    /\ [][NextTicking]_vars
    /\ WF_vars(CollIdle /\ alertIntervalFires)
    /\ WF_vars(AlertIdle /\ collIntervalFires)
    /\ WF_vars(AlertPassStep)
    /\ WF_vars(CollPassStep)
    /\ WF_vars(Collect)

\* The same with subscriptions and pools deleted under the running engines.
Deletes ==
    \/ \E id \in SubIds : deleteSubscription(id)
    \/ \E id \in {"p1", "p2"} : deletePool(id)
NextIntegrity == NextEngines \/ Deletes
SpecIntegrity == InitEngines /\ [][NextIntegrity]_vars

\* The alert engine with the subscription it evaluates switched off, switched
\* on again, changed or deleted under it.  The notification follows the
\* INSERT's return in the same turn of the event loop (sendEmailNotification
\* logs before its first await), so no response is sent between the two.
DispatchPending == \E i \in 1..Len(alertPasses) : alertPasses[i].pc = "dispatch"
Manages ==
    /\ ~DispatchPending
    /\ \/ \E threshold \in {Absent, Given(NONE)}, is_active \in {Absent, Given(FALSE), Given(TRUE)} :
             updateSubscription("s1", threshold, is_active)
       \/ \E id \in {"s1", "s9"} : deleteSubscription(id)
InitManaged ==
    /\ InitStopped
    /\ tz = 0
    /\ subs = <<Offline1>>
    /\ poolStats = <<Stat("p1", -11, 1000)>>
    /\ history = <<>>
NextManaged == AlertStep \/ Manages
SpecManaged == InitManaged /\ [][NextManaged]_vars

\* The alert engine over one subscription that lacks its pool or its threshold,
\* or one that has both, and statistics that make every complete check fire.
LackingSubs ==
    {Sub("s1", NULL, "pool_offline", NONE, 1)}
    \cup {Sub("s2", pool, "hashrate_drop", t, 1) :
             pool \in {NULL, "p2"}, t \in {NONE, Num(0), Num(15)}}
    \cup {Luck3(pool, t) : pool \in {NULL, "p1"}, t \in {NONE, Num(0), Num(95)}}
InitLacking ==
    /\ InitStopped
    /\ tz = 0
    /\ \E sub \in LackingSubs : subs = <<sub>>
    /\ poolStats \in {<<LuckStat("p1", -11, 90), Stat("p2", -2, 1000), Stat("p2", -1, 800)>>,
                       <<LuckStat("p1", -11, -5), Stat("p2", -2, 1000), Stat("p2", -1, 0)>>}
    /\ history = <<>>
SpecLacking == InitLacking /\ [][AlertStep]_vars

\* The collector over pools of every status, with a pool deleted under it.
PoolTables ==
    {SeedPools,
     <<Pool("p1", "active"), Pool("p2", "maintenance"), Pool("p3", "inactive")>>,
     <<Pool("p1", "maintenance"), Pool("p2", "active")>>}
InitCollector ==
    /\ InitSetUp
    /\ deployment = "server.ts"
    /\ tz = 0
    /\ pools \in PoolTables
    /\ subs = <<>>
    /\ poolStats = <<>>
    /\ blockRows = <<>>
    /\ history = <<>>
NextCollector == CollStep \/ deletePool("p1")
SpecCollector == InitCollector /\ [][NextCollector]_vars

\* One pool_offline subscription at a fixed instant (time 0): its pool's latest
\* statistic is 9, 10 or 11 minutes old, the server runs in one of three time
\* zones, and an earlier firing may exist.
InitOffline ==
    /\ InitStopped
    /\ tz \in TimeZones
    /\ subs = <<Offline1>>
    /\ \E ts \in {-11, -10, -9} :
         poolStats \in {<<Stat("p1", ts, 1000)>>,
                        <<Stat("p1", ts, 1000), Stat("p1", ts - 5, 1000)>>}
    /\ history \in {<<>>, <<HistoryRow("s1", "p1", -CooldownMinutes)>>,
                    <<HistoryRow("s1", "p1", 1 - CooldownMinutes)>>}

SpecOffline == InitOffline /\ [][AlertStep]_vars

\* One hashrate_drop subscription at a fixed instant: its pool has one statistic,
\* or two with hashrates drawn from HashrateValues.
InitDrop ==
    /\ InitStopped
    /\ tz = 0
    /\ \E t \in Thresholds : subs = <<Drop2(t)>>
    /\ \E previous \in HashrateValues, current \in HashrateValues :
         poolStats \in {<<Stat("p2", -1, current)>>,
                        <<Stat("p2", -2, previous), Stat("p2", -1, current)>>}
    /\ history = <<>>

SpecDrop == InitDrop /\ [][AlertStep]_vars

\* One subscription, of any of the types that check anything, over rows that
\* make each of them fire: p1 silent for 11 minutes, p2 down from 1000 to 800, p1's luck
\* at 90 under a threshold of 95, and a block of p1 one minute old.
InitTypes ==
    /\ InitSeeded
    /\ deployment = "server.ts"
    /\ tz = 0
    /\ subs \in {<<Offline1>>, <<Drop2(15)>>, <<Luck3("p1", Num(95))>>, <<NewBlock4("p1")>>}
    /\ poolStats = <<LuckStat("p1", -11, 90), Stat("p2", -2, 1000), Stat("p2", -1, 800)>>
    /\ blockRows = <<Block("p1", 77, -1)>>
    /\ history = <<>>

SpecTypes == InitTypes /\ [][AlertStep]_vars

\* One new_block subscription, of pool p1 or global, at a fixed instant, over
\* blocks of p1 and p2 that are 0 to 3 minutes old; an earlier firing may exist.
InitNewBlock ==
    /\ InitSeeded
    /\ deployment = "server.ts"
    /\ tz = 0
    /\ poolStats = <<>>
    /\ \E pool \in {"p1", NULL} :
         /\ subs = <<NewBlock4(pool)>>
         /\ history \in {<<>>, <<HistoryRow("s4", pool, -CooldownMinutes)>>,
                         <<HistoryRow("s4", pool, 1 - CooldownMinutes)>>}
    /\ blockRows \in {<<>>, <<Block("p1", 77, -1)>>, <<Block("p1", 77, -2)>>,
                      <<Block("p2", 78, -1)>>, <<Block("p1", 77, -1), Block("p1", 79, 0)>>,
                      <<Block("p1", 77, -3), Block("p2", 78, -1)>>,
                      <<Block("p2", 78, -1), Block("p1", 79, 0)>>}

SpecNewBlock == InitNewBlock /\ [][AlertStep]_vars

\* The fetcher alone: a controller calls its methods one after the other while
\* time passes and the upstreams answer in any order and in any way.
EntryPoints == {"getEthPrice", "getNetworkStats", "getRecentBlocks",
                "getAllPoolsData", "getDashboardStats"}

InitFetch ==
    /\ InitStopped
    /\ tz = 0
    /\ subs = <<>>
    /\ poolStats = <<>>
    /\ history = <<>>

NextFetch ==
    \/ \E m \in EntryPoints : Invoke(m)
    \/ \E m \in LeafMethods : Respond(m)
    \/ \E m \in AggregateMethods : Join(m)
    \/ Elapse
SpecFetch == InitFetch /\ [][NextFetch]_vars


\* The comparison route of either server, over the rows its pool source can
\* hold.
InitCompare ==
    /\ InitServices
    /\ deployment \in Deployments
    /\ tz = 0
    /\ subs = <<>>
    /\ poolStats = <<>>
    /\ history = <<>>
SpecCompare == InitCompare /\ [][GetPoolsCompare]_vars

\* The alert routes of the database-backed server over an empty
\* alert_subscriptions table.
InitSubscriptions ==
    /\ InitStopped
    /\ tz = 0
    /\ subs = <<>>
    /\ poolStats = <<>>
    /\ history = <<>>
SpecSubscriptions == InitSubscriptions /\ [][AlertRequest]_vars

\* The WebSocket service of the database-backed server with no client yet.
InitWebSocket ==
    /\ InitStopped
    /\ tz = 0
    /\ subs = <<>>
    /\ poolStats = <<>>
    /\ history = <<>>
SpecWebSocket == InitWebSocket /\ [][NextWebSocket]_vars

\* simple-start.js with an empty cache, serving GET requests while upstream
\* sources come and go.
InitSimple ==
    /\ InitServices
    /\ deployment = "simple-start.js"
    /\ tz = 0
    /\ subs = <<>>
    /\ poolStats = <<>>
    /\ history = <<>>

\* The simulation of simple-start.js from the start of the process on.
InitSimulation ==
    /\ InitFields
    /\ SetUp
    /\ poolVariations \in [SimPools -> Trends]
    /\ deployment = "simple-start.js"
    /\ tz = 0
    /\ pools = SeedPools
    /\ subs = <<>>
    /\ poolStats = <<>>
    /\ blockRows = <<>>
    /\ history = <<>>
SpecSimulation == InitSimulation /\ [][simulationTick]_vars

NextSimple == (\E path \in SimplePaths : SimpleRequest(path)) \/ JsExpire
SpecSimple == InitSimple /\ [][NextSimple]_vars

\* A server process from its construction on: the two setupServices() runs
\* over a database that is empty or holds pools already, and requests to the
\* routers.
InitBoot ==
    /\ InitConstructed
    /\ deployment = "server.ts"
    /\ pools \in {<<>>, SeedPools}
    /\ controllers = {}
    /\ nodeEnv \in {"development", "production"}
    /\ seedEnv \in BOOLEAN
    /\ sameProcess = TRUE
    /\ runs = [run \in Runs |-> NewRun]
    /\ databaseService = MaxRuns /\ serviceDb = 0 /\ engineDb = 0
    /\ blockRows = <<>>
    /\ tz = 0
    /\ subs = <<>>
    /\ poolStats = <<>>
    /\ history = <<>>
NextBoot == setupServices \/ RoutedRequest
SpecBoot == InitBoot /\ [][NextBoot]_vars

\* Startups with DEV_SEED_DATA=true over an empty database: the runs of one
\* process, or of two.
InitSeed ==
    /\ InitConstructed
    /\ deployment = "server.ts"
    /\ pools = <<>>
    /\ controllers = {}
    /\ nodeEnv = "development"
    /\ seedEnv = TRUE
    /\ sameProcess \in BOOLEAN
    /\ runs = [run \in Runs |-> NewRun]
    /\ databaseService = MaxRuns /\ serviceDb = 0 /\ engineDb = 0
    /\ blockRows = <<>>
    /\ tz = 0
    /\ subs = <<>>
    /\ poolStats = <<>>
    /\ history = <<>>
NextSeed == setupServices \/ restart
SpecSeed == InitSeed /\ [][NextSeed]_vars

\* One server start: the Server is constructed (its constructor has called
\* setupServices()) and start() is to be called; the engines it starts are
\* followed from the moment both runs of setupServices() are over.
InitStart ==
    /\ InitConstructed
    /\ deployment = "server.ts"
    /\ pools \in {<<>>, SeedPools}
    /\ controllers = {}
    /\ nodeEnv = "development"
    /\ seedEnv \in BOOLEAN
    /\ sameProcess = TRUE
    /\ runs = [run \in Runs |-> IF run = 1 THEN NewRun ELSE Over("unstarted")]
    /\ databaseService = 1 /\ serviceDb = 0 /\ engineDb = 0
    /\ blockRows = <<>>
    /\ tz = 0
    /\ subs = (IF pools = <<>> THEN <<>> ELSE <<Offline1>>)
    /\ poolStats = (IF pools = <<>> THEN <<>> ELSE <<Stat("p1", -11, 1000)>>)
    /\ history = <<>>
EnginesRun ==
    /\ ~Exited
    /\ \A run \in Runs : Finished(run)
    /\ alertIntervalFires \/ collIntervalFires \/ AlertPassStep \/ CollPassStep
NextStart == start \/ startContinues \/ setupServices \/ EnginesRun
SpecStart == InitStart /\ [][NextStart]_vars

\* ------------------------------------------------------------------ claims
\* The alert_history rows a run has added for a subscription (the seeded ones
\* carry negative times).
Fired(s) == {i \in 1..Len(history) :
                history[i].subscription_id = s /\ history[i].triggered_at >= 0}
AllAlertPassesDone == \A i \in 1..Len(alertPasses) : alertPasses[i].pc = "done"
LatestTimestamp(pool) == poolStats[CHOOSE i \in TopOne(pool) : TRUE].timestamp
AllCollPassesDone == \A i \in 1..Len(collPasses) : collPasses[i].pc = "done"
\* No seeded firing of s lies inside the cooldown window at time 0.
NoSeededCooldown(s) ==
    \A i \in 1..Len(history) :
        (history[i].subscription_id = s /\ history[i].triggered_at < 0)
            => history[i].triggered_at <= -CooldownMinutes

\* C1: in every reachable state, whatever the interleaving of alert passes, no
\* two alert_history rows of one subscription have triggered_at values less than
\* one hour apart.
C1_NoTwoFiringsWithinCooldown ==
    \A i, j \in 1..Len(history) :
        (i < j /\ history[i].subscription_id = history[j].subscription_id)
            => history[j].triggered_at - history[i].triggered_at >= CooldownMinutes

\* C2: when the alert passes ran one after the other (each began after the
\* earlier ones had finished), all within one hour, no persistence call failed,
\* the subscription was outside its cooldown at the start, and its trigger
\* condition held in at least two of the passes, then exactly one alert_history
\* row was added for it and its notification was dispatched exactly once.
C2_SequentialPasses(s) ==
    /\ AllAlertPassesDone
    /\ \A i \in 1..Len(alertPasses) : alertPasses[i].solo
    /\ Cardinality({i \in 1..Len(alertPasses) : s \in alertPasses[i].held}) >= 2
    /\ clock < CooldownMinutes
    /\ ~dbFailed
    /\ NoSeededCooldown(s)

C2_SequentialPassesFireOnce ==
    \A s \in SubIds :
        C2_SequentialPasses(s) => (Cardinality(Fired(s)) = 1 /\ dispatched[s] = 1)

C2_Witness ==
    /\ C2_SequentialPasses("s1")
    /\ Cardinality(Fired("s1")) = 1
    /\ history[Len(history)].email_sent = 1

\* C3: for every cache entry, a read made before the entry's ttl has elapsed
\* returns the stored value; once the ttl has elapsed the TTL-respecting read
\* returns absent, while the read made as the failure fallback still returns the
\* stored value.
C3_CacheReads ==
    \A k \in DOMAIN cache :
        IF dateNow - cache[k].timestamp < cache[k].ttl
        THEN getCachedData(cache, k) = cache[k].data
        ELSE /\ getCachedData(cache, k) = Null
             /\ fallbackRead(cache, k) = cache[k].data

\* C4: when its upstream fails, getEthPrice (and likewise getNetworkStats)
\* returns the value last cached under its key if there is one, whether or not
\* that entry's ttl has elapsed, and the hard-coded constant only if nothing was
\* ever cached.
C4_FallbackReturnsLastCached ==
    \A m \in {"getEthPrice", "getNetworkStats"} :
        calls[m].pc = "returned" /\ calls[m].via = "caught" =>
            calls[m].result =
                IF cacheKey(m) \in DOMAIN cache /\ cache[cacheKey(m)].data # Null
                THEN cache[cacheKey(m)].data
                ELSE fallbackConstant(m)

\* C5: none of getEthPrice, getNetworkStats, getRecentBlocks, getAllPoolsData
\* and getDashboardStats ever raises to its caller, whatever the upstreams answer
\* (a well-formed body, a malformed one, a network error, a timeout) and whatever
\* the cache holds: a call is never in the raised state, a call that is still
\* awaiting has an upstream answer or a join left to wait for, and so a call
\* whose upstreams have all answered has returned.  (What getEthPrice returns
\* for a body without the usd field is JavaScript's undefined.)
CanProceed ==
    \E x \in Methods :
        calls[x].pc = "await" /\ (x \in LeafMethods \/ Settled(x))
C11_Bonus(pool) ==
    (IF ToNumber(Field(pool, "hashrate")) > 50 THEN 20
     ELSE IF ToNumber(Field(pool, "hashrate")) > 10 THEN 15
     ELSE IF ToNumber(Field(pool, "hashrate")) > 5 THEN 10 ELSE 0)
    + (IF ToNumber(Field(pool, "fee_percentage")) <= 10 THEN 15
       ELSE IF ToNumber(Field(pool, "fee_percentage")) <= 20 THEN 10
       ELSE IF ToNumber(Field(pool, "fee_percentage")) <= 30 THEN 5 ELSE 0)
    + (IF Abs(100 - ToNumber(Field(pool, "luck_7d"))) <= 5 THEN 10
       ELSE IF Abs(100 - ToNumber(Field(pool, "luck_7d"))) <= 15 THEN 5 ELSE 0)
    + (IF ToNumber(Field(pool, "recent_blocks")) > 5 THEN 10
       ELSE IF ToNumber(Field(pool, "recent_blocks")) > 0 THEN 5 ELSE 0)
    + (IF Field(pool, "payout_method") = "PPLNS" THEN 5 ELSE 0)
C11_ScoreFormula ==
    response.request = ComparePath =>
        \A i \in 1..Len(response.data) :
            LET total == 50 + C11_Bonus(response.data[i])
                atLeast0 == IF total > 0 THEN total ELSE 0
            IN  response.data[i].recommendation_score =
                    IF atLeast0 < 100 THEN atLeast0 ELSE 100
\* The spec's example: 6e14 H/s, 0.5 %, luck 100, 6 recent blocks, PPLNS.
C11_Witness ==
    /\ response.request = ComparePath
    /\ response.status = 200
    /\ Len(response.data) = 1
    /\ response.data[1] = WithScore(ComparedPool("p1", Num(60), Num(5), Num(100), Num(6),
                                                 "PPLNS"), 100)

\* C12: on the database-backed server, a GET /api/alerts/manage/:email that
\* follows a successful POST /api/alerts/subscribe contains the subscription
\* created, with the email, pool_id, alert_type and threshold of the request,
\* and no longer contains it once a DELETE /api/alerts/:id of it has succeeded.
C12_Listed(data, id) == \E k \in 1..Len(data) : data[k].id = id
C12_ListedAsRequested(data, id) ==
    \E k \in 1..Len(data) :
        /\ data[k].id = id
        /\ data[k].email = requested[id].email
        /\ data[k].pool_id = requested[id].pool_id
        /\ data[k].alert_type = requested[id].alert_type
        /\ data[k].threshold = requested[id].threshold
C12_SubscribeManageRoundTrip ==
    [][(response'.handler = "getSubscriptionsByEmail" /\ response'.status = 200) =>
        \A id \in 1..Len(requested) :
            requested[id].email = response'.request[4] =>
                IF id \in deleted
                THEN ~C12_Listed(response'.data, id)
                ELSE C12_ListedAsRequested(response'.data, id)]_vars

\* C13: no two alert_subscriptions rows have the same (email, pool_id,
\* alert_type), global subscriptions (pool_id NULL) included.
C13_OneRowPerEmailPoolType ==
    \A i, j \in 1..Len(subs) :
        (/\ subs[i].email = subs[j].email
         /\ subs[i].pool_id = subs[j].pool_id
         /\ subs[i].alert_type = subs[j].alert_type) => i = j

\* C14: a broadcast sends the serialized message exactly once to every client
\* whose socket is open and whose send does not throw, and removes from the
\* set every client whose socket is not open or whose send throws; the set
\* holds only sockets that have connected and whose 'close' or 'error' has
\* not been handled; a socket that has left the set receives no broadcast.
C14_BroadcastStep ==
    broadcasts' = broadcasts + 1 =>
        /\ \A c \in Sockets :
             received'[c] =
                 IF c \in clients /\ readyState[c] = "open" /\ c \notin lastEvent'.threw
                 THEN Append(received[c], [type |-> lastEvent'.frame, data |-> broadcasts'])
                 ELSE received[c]
        /\ clients' = {c \in clients : readyState[c] = "open" /\ c \notin lastEvent'.threw}
C14_BroadcastAndClientSet ==
    /\ [](clients \subseteq Connected \ handled)
    /\ [][C14_BroadcastStep /\ clients' \cap Connected \subseteq clients]_vars
C14_Witness ==
    /\ lastEvent.kind = "broadcast"
    /\ lastEvent.threw = {"w1"}
    /\ clients = {}
    /\ readyState = [ws \in Sockets |-> IF ws = "w1" THEN "open" ELSE "closing"]
    /\ handled = {}
    /\ broadcasts = 2
    /\ Len(received["w2"]) = 2
    /\ Len(received["w1"]) = 2

\* C15: an inbound ping is answered with exactly one pong to its sender, an
\* inbound subscribe with exactly one subscription_confirmed carrying the same
\* data; a message of another type or a frame that is not valid JSON gets no
\* reply; the sender stays in the client set and no other client is sent
\* anything.
C15_Replies(frame, overflowData) ==
    CASE frame = "ping" -> <<[type |-> "pong", data |-> "absent"]>>
      [] frame = "subscribe pools" ->
           <<[type |-> "subscription_confirmed", data |-> "pools"]>>
      [] frame = "subscribe 1e999" ->
           <<[type |-> "subscription_confirmed", data |-> overflowData]>>
      [] frame = "subscribe" -> <<[type |-> "subscription_confirmed", data |-> "absent"]>>
      [] OTHER -> <<>>
C15_MessageStep(replies) ==
    inbound' = inbound + 1 =>
        /\ received' = [received EXCEPT ![lastEvent'.socket] = @ \o replies]
        /\ clients' = clients
C15_EveryMessageAnswered ==
    [][C15_MessageStep(C15_Replies(lastEvent'.frame, "1e999"))]_vars
\* C15 as the code has it: the reply is sent only if the sender's socket is
\* OPEN and the send does not throw, and the data of a subscribe comes back as
\* JSON.stringify(JSON.parse(...)) makes it (a number beyond the doubles comes
\* back as null).
C15_OpenSenderAnswered ==
    [][C15_MessageStep(IF lastEvent'.socket \in lastEvent'.open \ lastEvent'.threw
                       THEN C15_Replies(lastEvent'.frame, "null")
                       ELSE <<>>)]_vars
C15_Witness ==
    /\ lastEvent.kind = "message"
    /\ lastEvent.frame = "subscribe pools"
    /\ lastEvent.socket = "w1"
    /\ clients = {"w1", "w2"}
    /\ received["w1"] = <<[type |-> "connection", data |-> "absent"],
                          [type |-> "subscription_confirmed", data |-> "pools"]>>
    /\ received["w2"] = <<[type |-> "connection", data |-> "absent"]>>

\* C16: within one deployment the endpoints that depend on external pool data
\* answer an upstream outage with one policy: two answers given during an
\* outage are both 503 or both fallback data, whichever endpoints gave them.
C16_Policy(r) ==
    IF r.status = 503 THEN "unavailable"
    ELSE IF r.source = "fallback" THEN "fallback"
    ELSE "none"
C16_OneOutagePolicy ==
    [][(C16_Policy(response) # "none" /\ C16_Policy(response') # "none") =>
          C16_Policy(response) = C16_Policy(response')]_vars

\* C17: the calls made inside one getDashboardStats of ExternalAPIService.js
\* follow one failure policy: never does one of them fall back silently while
\* another one raises.
C17_OnePolicyPerAggregate ==
    ~(/\ \E part \in DOMAIN jsParts : jsParts[part] = "fallback"
      /\ \E part \in DOMAIN jsParts : jsParts[part] = "raised")

\* C18: a request to a route of /api/pools, /api/alerts or /api/stats that is
\* handled before the router's controller is initialized is answered 500
\* 'Service not initialized' and changes no table; once the controller is
\* initialized the request reaches the controller's method.
C18_ControllerMethods ==
    {"createSubscription", "getSubscriptionsByEmail", "deleteSubscription", "getPoolById",
     "getDashboardStats"}
C18_RequestStep ==
    (runs' = runs /\ response'.request # <<>>) =>
        IF response'.request[2] \notin controllers
        THEN /\ response'.status = 500
             /\ response'.error \in {"Service not initialized",
                                     "Error: Service not initialized\n    at ..."}
             /\ UNCHANGED <<pools, poolStats, subs, history>>
        ELSE response'.handler \in C18_ControllerMethods
C19_Count(name) == Cardinality({i \in 1..Len(pools) : pools[i].name = name})
C19_SeededOnce ==
    /\ \A i \in 1..Len(SamplePools) : C19_Count(SamplePools[i]) <= 1
    /\ (\E run \in Runs : runs[run].pc = "done") =>
           \A i \in 1..Len(SamplePools) : C19_Count(SamplePools[i]) = 1
    /\ Len(pools) \in {0, Len(SamplePools)}
    /\ Len(poolStats) = Len(pools)
    /\ \A run \in Runs : runs[run].pc = "insert" => pools = <<>>
C19_SeedsOnlyWhenEmpty == pools' # pools => pools = <<>>
C19_SeedingExactlyOnce == []C19_SeededOnce /\ [][C19_SeedsOnlyWhenEmpty]_vars
C19_Witness ==
    /\ ~sameProcess
    /\ runs[1].pc = "failed"
    /\ runs[2].pc = "done"
    /\ Len(pools) = Len(SamplePools)
    /\ \A i \in 1..Len(pools) : pools[i] = SamplePool(2, SamplePools[i])

\* C20: every pool_statistics row references an existing pool and every
\* alert_history row an existing subscription (and a pool that exists, or
\* none), also when a pool or a subscription is deleted under a pass that has
\* loaded it: the pass's late insert adds no row, and a delete takes the
\* dependent rows with it.
C20_NoDanglingRow ==
    /\ \A r \in 1..Len(poolStats) : \E i \in 1..Len(pools) : pools[i].id = poolStats[r].pool_id
    /\ \A r \in 1..Len(history) :
         /\ \E i \in 1..Len(subs) : subs[i].id = history[r].subscription_id
         /\ history[r].pool_id # NullId =>
                \E i \in 1..Len(pools) : pools[i].id = history[r].pool_id
    /\ \A r \in 1..Len(subs) :
         subs[r].pool_id # NullId => \E i \in 1..Len(pools) : pools[i].id = subs[r].pool_id
C20_LateInsertRejected ==
    /\ \A i \in 1..Len(alertPasses) :
         (/\ alertPasses[i].pc = "trig_insert"
          /\ \A s \in 1..Len(subs) :
                 subs[s].id # alertPasses[i].alerts[alertPasses[i].k].id
          /\ alertPasses'[i].pc # "trig_insert") => history' = history
    /\ \A i \in 1..Len(collPasses) :
         (/\ collPasses[i].pc = "insert"
          /\ \A s \in 1..Len(pools) : pools[s].id # collPasses[i].pools[collPasses[i].k].id
          /\ collPasses'[i] # collPasses[i]) => poolStats' = poolStats
C21_TimerAlive ==
    /\ alertRunning => alertTimers > 0
    /\ collRunning => collTimers > 0
C21_Begun(passes) == \E i \in 1..Len(passes) : passes[i].pc = "load"
C21_StartAndPassSteps ==
    /\ (~alertRunning /\ alertRunning') =>
           /\ Len(alertPasses') = Len(alertPasses) + 1
           /\ alertPasses'[Len(alertPasses')].pc = "load"
    /\ (~collRunning /\ collRunning') =>
           /\ Len(collPasses') = Len(collPasses) + 1
           /\ collPasses'[Len(collPasses')].pc = "load"
    /\ (Len(alertPasses') = Len(alertPasses) /\ alertPasses' # alertPasses) =>
           UNCHANGED <<alertRunning, alertHandle, alertTimers>>
    /\ (Len(collPasses') = Len(collPasses) /\ collPasses' # collPasses) =>
           UNCHANGED <<collRunning, collHandle, collTimers>>
C21_PassesKeepBeginning ==
    /\ []C21_TimerAlive
    /\ [][C21_StartAndPassSteps]_vars
    /\ (alertRunning /\ ~C21_Begun(alertPasses)) ~> (~alertRunning \/ C21_Begun(alertPasses))
    /\ (collRunning /\ ~C21_Begun(collPasses)) ~> (~collRunning \/ C21_Begun(collPasses))
C21_Witness ==
    /\ alertRunning
    /\ dbFailed
    /\ Len(alertPasses) = 2
    /\ alertPasses[1].pc = "done" /\ alertPasses[1].alerts = <<>>
    /\ alertPasses[2].pc = "load"

\* C22: the trigger_value of the alert_history row of a firing is the percent
\* drop for hashrate_drop, the minutes since the last update for pool_offline,
\* the luck value for luck_streak and the block number for new_block.
C22_TypeOf(id) == subs[CHOOSE i \in 1..Len(subs) : subs[i].id = id].alert_type
C22_PercentDrop(pool) ==
    LET rows == CHOOSE r \in TopTwo(pool) : TRUE
        current == poolStats[rows[1]].hashrate
        previous == poolStats[rows[2]].hashrate
    IN  ((previous - current) * 100) \div previous
C22_ValueOfType(row) ==
    CASE C22_TypeOf(row.subscription_id) = "hashrate_drop" -> C22_PercentDrop(row.pool_id)
      [] C22_TypeOf(row.subscription_id) = "pool_offline" ->
             row.triggered_at - LatestTimestamp(row.pool_id)
      [] C22_TypeOf(row.subscription_id) = "luck_streak" ->
             poolStats[CHOOSE i \in TopOne(row.pool_id) : TRUE].luck_7d
      [] C22_TypeOf(row.subscription_id) = "new_block" -> blockRows[1].block_number
C22_TriggerValueOfType ==
    \A r \in 1..Len(history) : history[r].trigger_value = C22_ValueOfType(history[r])

\* C23: a firing past the cooldown check inserts its alert_history row with
\* email_sent = 0 before the dispatch is attempted; email_sent becomes 1 only
\* in the update that follows a dispatch that succeeded; when the dispatch or
\* the update fails the row stays, with email_sent = 0, the pass goes on with
\* its next subscription, and the row counts for the cooldown.
C23_InsertThenDispatch ==
    /\ Len(history') >= Len(history)
    /\ Len(history') > Len(history) =>
           /\ Len(history') = Len(history) + 1
           /\ history'[Len(history')].email_sent = 0
           /\ dispatched' = dispatched
    /\ \A r \in 1..Len(history) :
         /\ history'[r].email_sent # history[r].email_sent =>
                /\ history'[r].email_sent = 1
                /\ dispatched[history[r].subscription_id] > 0
                /\ \E i \in 1..Len(alertPasses) :
                       alertPasses[i].pc = "trig_update" /\ alertPasses[i].row = r
         /\ [history'[r] EXCEPT !.email_sent = 0] = [history[r] EXCEPT !.email_sent = 0]
    /\ \A i \in 1..Len(alertPasses) :
         (alertPasses[i].pc \in {"dispatch", "trig_update"} /\ alertPasses'[i] # alertPasses[i]) =>
             IF alertPasses[i].k < Len(alertPasses[i].alerts)
             THEN alertPasses'[i].pc \in {"trig_update", "check"}
             ELSE alertPasses'[i].pc \in {"trig_update", "done"}
C23_RowCounts ==
    \A r \in 1..Len(history) :
        history[r].triggered_at > clock - CooldownMinutes =>
            recentAlert(history[r].subscription_id, clock)
C23_RecordedBeforeDispatch == []C23_RowCounts /\ [][C23_InsertThenDispatch]_vars
C23_Witness ==
    /\ Len(alertPasses) = 1
    /\ alertPasses[1].pc = "check" /\ alertPasses[1].k = 2
    /\ dispatched["s1"] = 1
    /\ Len(history) = 1
    /\ history[1].subscription_id = "s1" /\ history[1].email_sent = 0

\* C24: an active new_block subscription with no alert_history row in the last
\* hour fires in a pass exactly when some blocks row is less than 2 minutes
\* old, of its pool if it has one and of any pool if it has none; and a pass
\* adds at most one row for it, however many such blocks there are.
C24_BlocksThatCount ==
    {b \in 1..Len(blockRows) :
        /\ blockRows[b].timestamp > clock - NewBlockMinutes
        /\ subs[1].pool_id # NULL => blockRows[b].pool_id = subs[1].pool_id}
C24_NewBlockFiresOnce ==
    (Len(alertPasses) = 1 /\ AllAlertPassesDone) =>
        /\ Cardinality(Fired("s4")) <= 1
        /\ (~dbFailed /\ NoSeededCooldown("s4")) =>
               (Fired("s4") # {} <=> C24_BlocksThatCount # {})
C24_Witness ==
    /\ Len(alertPasses) = 1 /\ AllAlertPassesDone /\ ~dbFailed
    /\ Cardinality(C24_BlocksThatCount) = 2
    /\ Cardinality(Fired("s4")) = 1

\* C25: a collection pass that completes without a failure has inserted exactly
\* one pool_statistics row for each pool that was active when it read the list
\* and none for an inactive or maintenance pool, and no step of the collector
\* changes or removes a row that exists.
C25_ActiveIds == {pools[k].id : k \in {j \in 1..Len(pools) : pools[j].status = "active"}}

C25_Loaded(p) == {p.pools[k].id : k \in 1..Len(p.pools)}

C25_ListIsTheActivePools ==
    \A i \in 1..Len(collPasses) :
        (collPasses[i].pc = "load" /\ collPasses'[i].pc # "load" /\ ~dbFailed')
            => C25_Loaded(collPasses'[i]) = C25_ActiveIds

C25_RowsOfPasses ==
    /\ \A i \in 1..Len(collPasses) :
           LET p == collPasses[i]
           IN  (p.pc = "done" /\ p.failed = {} /\ ~dbFailed)
                   => p.inserted = C25_Loaded(p)
    /\ \A k \in 1..Len(pools) :
           Cardinality(StatsOf(pools[k].id)) =
               Cardinality({i \in 1..Len(collPasses) : pools[k].id \in collPasses[i].inserted})

C25_RowsStay ==
    CollStep => /\ Len(poolStats') >= Len(poolStats)
                /\ SubSeq(poolStats', 1, Len(poolStats)) = poolStats

C25_OneRowPerActivePool ==
    []C25_RowsOfPasses /\ [][C25_ListIsTheActivePools /\ C25_RowsStay]_vars

C25_Witness ==
    /\ ~dbFailed
    /\ \E k \in 1..Len(pools) : pools[k].status = "maintenance"
    /\ \E k \in 1..Len(pools) : pools[k].status = "inactive"
    /\ Len(collPasses) = 2
    /\ \A i \in 1..2 : /\ collPasses[i].pc = "done"
                        /\ collPasses[i].failed = {}
                        /\ collPasses[i].inserted = {"p1"}
    /\ Len(poolStats) = 2

\* C26: while the cache entry of a source key is fresh (age < TTL) every call
\* of that source's method returns the entry's value without a request being
\* sent, and a call whose request succeeded has stored the value it returns
\* under that key with the default TTL.
C26_Fresh(m) ==
    /\ cacheKey(m) \in DOMAIN cache
    /\ dateNow - cache[cacheKey(m)].timestamp < cache[cacheKey(m)].ttl

C26_Called(m) == callCount' # callCount /\ calls'[m].pc # "idle"

C26_Stored ==
    \A m \in Methods :
        (calls[m].pc # "returned" /\ calls'[m].pc = "returned" /\ calls'[m].via = "ok")
            => /\ cacheKey(m) \in DOMAIN cache'
               /\ cache'[cacheKey(m)] =
                      [data |-> calls'[m].result, timestamp |-> dateNow, ttl |-> CACHE_TTL]

C26_Serves(m) == calls'[m] = Returned(cache[cacheKey(m)].data, "hit")

C26_FreshServes == \A m \in Methods : (C26_Called(m) /\ C26_Fresh(m)) => C26_Serves(m)

C26_FreshEntryIsServed == [][C26_FreshServes /\ C26_Stored]_vars

\* The same for the entries whose value is not one JavaScript takes for false.
C26_TruthyServes ==
    \A m \in Methods :
        (C26_Called(m) /\ C26_Fresh(m) /\ Truthy(cache[cacheKey(m)].data)) => C26_Serves(m)

C26_TruthyFreshEntryIsServed == [][C26_TruthyServes /\ C26_Stored]_vars

\* C27: in the simulation server, after any number of ticks, the recent-blocks
\* list holds at most 5 blocks, newest first; block numbers are handed out in
\* strictly increasing order and never twice; and a block is generated only when
\* more than 3 minutes have passed since the block generated before it.
C27_RecentBlocks ==
    /\ Len(dynamicBlocks) <= 5
    /\ \A i \in 1..(Len(dynamicBlocks) - 1) :
           dynamicBlocks[i].timestamp > dynamicBlocks[i + 1].timestamp
    /\ \A i \in 1..Len(dynamicBlocks) : dynamicBlocks[i].block_number < blockCounter
    /\ \A i, j \in 1..Len(dynamicBlocks) :
           i # j => dynamicBlocks[i].block_number # dynamicBlocks[j].block_number

C27_Generated == dynamicBlocks' # dynamicBlocks \/ blockCounter' # blockCounter

C27_Generation ==
    /\ blockCounter' >= blockCounter
    /\ C27_Generated =>
          /\ blockCounter' = blockCounter + 1
          /\ dynamicBlocks'[1].block_number = blockCounter
          /\ Tail(dynamicBlocks') = SubSeq(dynamicBlocks, 1, Len(dynamicBlocks') - 1)
          /\ dynamicBlocks'[1].timestamp - dynamicBlocks[1].timestamp > 3 * 12

C27_BlockSimulation == []C27_RecentBlocks /\ [][C27_Generation]_vars

C27_Witness ==
    /\ Len(dynamicBlocks) = 5
    /\ blockCounter = 18500123 + 6
    /\ dynamicBlocks[1].timestamp - dynamicBlocks[2].timestamp = 37

\* C28: once a PUT /api/alerts/:id with is_active = false or a DELETE
\* /api/alerts/:id has completed, no alert_history row is created for that
\* subscription and no notification of it dispatched, until it is made active
\* again -- even by a pass that loaded the list of subscriptions before.
C28_Off(id) == \A i \in 1..Len(subs) : subs[i].id = id => subs[i].is_active = 0

C28_RowsOf(h, id) == Cardinality({r \in 1..Len(h) : h[r].subscription_id = id})

C28_Quiet(id) ==
    /\ C28_RowsOf(history', id) <= C28_RowsOf(history, id)
    /\ dispatched'[id] = dispatched[id]

C28_OffStaysQuiet == [][\A id \in SubIds : C28_Off(id) => C28_Quiet(id)]_vars

\* The same of the subscriptions that are deleted.
C28_Deleted(id) == \A i \in 1..Len(subs) : subs[i].id # id

C28_DeletedStaysQuiet == [][\A id \in SubIds : C28_Deleted(id) => C28_Quiet(id)]_vars

\* C29: a subscription that lacks a field its check needs never produces an
\* alert_history row or a notification, whatever the statistics are:
\* hashrate_drop and luck_streak with a null pool_id or with a threshold that is
\* null or 0, and pool_offline with a null pool_id.
C29_Lacks(sub) ==
    \/ sub.alert_type \in {"hashrate_drop", "luck_streak"}
          /\ (sub.pool_id = NULL \/ sub.threshold = NONE \/ sub.threshold = Num(0))
    \/ sub.alert_type = "pool_offline" /\ sub.pool_id = NULL

C29_LackingNeverFires ==
    \A i \in 1..Len(subs) :
        C29_Lacks(subs[i]) =>
            /\ \A r \in 1..Len(history) : history[r].subscription_id # subs[i].id
            /\ dispatched[subs[i].id] = 0

C29_Witness ==
    /\ ~dbFailed
    /\ subs[1].alert_type = "hashrate_drop" /\ subs[1].pool_id = "p2"
    /\ subs[1].threshold = Num(0)
    /\ poolStats[3].hashrate = 800
    /\ Len(alertPasses) = 2
    /\ \A i \in 1..2 : alertPasses[i].pc = "done" /\ alertPasses[i].alerts = subs
    /\ history = <<>>

\* C30: during one server start the database is initialized exactly once and
\* two initializations are never in flight together; the engines started are
\* bound to that initialized database, and one collector timer and one alert
\* timer run afterwards.
C30_Begun == {run \in Runs : runs[run].pc # "unstarted"}

C30_InitializedOnce == Cardinality(C30_Begun) <= 1

C30_EnginesOfTheDatabase ==
    (engineDb # 0 /\ ~Exited) =>
        /\ runs[engineDb].pc = "done"
        /\ engineDb = databaseService
        /\ collTimers = 1 /\ alertTimers = 1

C30_OneStart == C30_InitializedOnce /\ C30_EnginesOfTheDatabase

\* C6: within one pass a failure on one entity does not stop the others: a
\* finished collector pass has inserted a pool_statistics row for every pool it
\* loaded whose own insert did not fail, and a finished alert pass has evaluated
\* every subscription it loaded.
C6_CollectorIsolation ==
    \A i \in 1..Len(collPasses) :
        LET p == collPasses[i]
            loaded == {p.pools[k].id : k \in 1..Len(p.pools)}
        IN  p.pc = "done" =>
              /\ p.inserted = loaded \ p.failed
              /\ \A id \in p.inserted :
                     \E r \in StatsOf(id) : poolStats[r].timestamp >= 0

C6_AlertIsolation ==
    \A i \in 1..Len(alertPasses) :
        alertPasses[i].pc = "done" => alertPasses[i].k = Len(alertPasses[i].alerts)

C6_FailureIsolation == C6_CollectorIsolation /\ C6_AlertIsolation

C6_Witness ==
    \E i \in 1..Len(collPasses) :
        /\ collPasses[i].pc = "done"
        /\ collPasses[i].failed = {"p1"}
        /\ collPasses[i].inserted = {"p2"}

\* C7: after any sequence of start and stop calls each engine has at most one
\* recurring timer and reports running exactly when that timer exists; a start
\* while running and a stop while stopped change nothing.
C7_OneTimer ==
    /\ alertTimers \in {0, 1} /\ (alertRunning <=> alertTimers = 1)
    /\ (alertHandle <=> alertTimers = 1)
    /\ collTimers \in {0, 1} /\ (collRunning <=> collTimers = 1)
    /\ (collHandle <=> collTimers = 1)

C7_IdempotentCalls ==
    /\ (startAlertProcessing /\ alertRunning) => UNCHANGED alertVars
    /\ (stopAlertProcessing /\ ~alertRunning) => UNCHANGED alertVars
    /\ (startDataCollection /\ collRunning) => UNCHANGED collVars
    /\ (stopDataCollection /\ ~collRunning) => UNCHANGED collVars

C7_StartStopIdempotent == []C7_OneTimer /\ [][C7_IdempotentCalls]_vars

C7_Witness ==
    /\ alertRunning /\ alertTimers = 1
    /\ Len(alertPasses) = 2 /\ alertPasses[2].solo

\* C8: while an engine is stopped no pass of it begins except by the start that
\* sets it running again, and a stop leaves the passes in flight as they are
\* (such a pass may insert its rows after the stop).
C8_NoPassWhileStopped ==
    /\ (~alertRunning /\ Len(alertPasses') > Len(alertPasses)) => alertRunning'
    /\ (~collRunning /\ Len(collPasses') > Len(collPasses)) => collRunning'

C8_StopKeepsInFlight ==
    /\ (alertRunning /\ ~alertRunning') => alertPasses' = alertPasses
    /\ (collRunning /\ ~collRunning') => collPasses' = collPasses

C8_StopStopsScheduling ==
    [][C8_NoPassWhileStopped /\ C8_StopKeepsInFlight]_vars

\* a row inserted, while the engine was stopped, by a pass that is still in flight
C8_Witness ==
    /\ ~alertRunning
    /\ \E i \in 1..Len(alertPasses) :
         /\ alertPasses[i].pc = "trig_update"
         /\ ~history[alertPasses[i].row].running

\* C9: an active pool_offline subscription whose pool has a statistic and which
\* has no firing in the last hour fires in a pass exactly when the pool's latest
\* statistic timestamp is more than 10 minutes old (at 11, not at 9 or 10).
C9_OfflineFiresIffOlderThanTen ==
    (/\ Len(alertPasses) = 1 /\ AllAlertPassesDone /\ ~dbFailed
     /\ NoSeededCooldown("s1"))
        => (Fired("s1") # {} <=> clock - LatestTimestamp("p1") > OfflineMinutes)

\* C10: an active hashrate_drop subscription with a pool and a threshold T fires
\* in a pass exactly when the pool has two statistics and the percent drop from
\* the second most recent hashrate to the most recent one is strictly greater
\* than T; a drop exactly equal to T does not fire.
C10_DropFiresIffAboveThreshold ==
    (Len(alertPasses) = 1 /\ AllAlertPassesDone /\ ~dbFailed)
        => (Fired("s2") # {} <=>
              /\ Len(poolStats) = 2
              /\ (poolStats[1].hashrate - poolStats[2].hashrate) * 100
                     > subs[1].threshold[1] * poolStats[1].hashrate)

====
